---- MODULE Spec2Model ----
(***************************************************************************)
(* Location record-linkage and enrichment engine of                        *)
(* Logics/create_locations_input.py: the string normalisers, the           *)
(* similarity scorer, the strategy selection and the four matchers, the    *)
(* virtual-location post-pass and the column bookkeeping of                *)
(* add_location_cloud_ids_to_locations_input.                              *)
(*                                                                         *)
(* A Python string is a sequence of one-character strings; a missing cell  *)
(* (pandas NaN / None) is the value NaN.                                   *)
(***************************************************************************)
EXTENDS Integers, Sequences, FiniteSets, TLC

(***************************************************************************)
(* Characters and strings                                                  *)
(***************************************************************************)
NaN == <<"NaN">>

isna(v) == v = NaN

notna(v) == v # NaN

UpperSeq == <<"A", "B", "C", "D", "E", "F", "G", "H", "I", "J", "K", "L", "M",
              "N", "O", "P", "Q", "R", "S", "T", "U", "V", "W", "X", "Y", "Z">>

LowerSeq == <<"a", "b", "c", "d", "e", "f", "g", "h", "i", "j", "k", "l", "m",
              "n", "o", "p", "q", "r", "s", "t", "u", "v", "w", "x", "y", "z">>

IsSpace(c) == c = " "

IsDigit(c) == c \in {"0", "1", "2", "3", "4", "5", "6", "7", "8", "9"}

lowerChar(c) ==
    IF \E i \in 1..Len(UpperSeq) : UpperSeq[i] = c
    THEN LowerSeq[CHOOSE i \in 1..Len(UpperSeq) : UpperSeq[i] = c]
    ELSE c

\* str.lower()
lower(s) == [i \in 1..Len(s) |-> lowerChar(s[i])]

\* str(v): the text of a cell; str(nan) is 'nan'
str(v) == IF isna(v) THEN <<"n", "a", "n">> ELSE v

RECURSIVE splitFrom(_, _, _)
splitFrom(s, i, cur) ==
    IF i > Len(s)
    THEN IF cur = <<>> THEN <<>> ELSE <<cur>>
    ELSE IF IsSpace(s[i])
         THEN IF cur = <<>>
              THEN splitFrom(s, i + 1, <<>>)
              ELSE <<cur>> \o splitFrom(s, i + 1, <<>>)
         ELSE splitFrom(s, i + 1, Append(cur, s[i]))

\* str.split(): the whitespace-separated words
split(s) == splitFrom(s, 1, <<>>)

RECURSIVE join(_, _)
\* sep.join(words)
join(sep, words) ==
    IF words = <<>> THEN <<>>
    ELSE IF Len(words) = 1 THEN words[1]
    ELSE words[1] \o sep \o join(sep, Tail(words))

RECURSIVE lstrip(_)
lstrip(s) == IF s # <<>> /\ IsSpace(s[1]) THEN lstrip(Tail(s)) ELSE s

RECURSIVE rstrip(_)
rstrip(s) ==
    IF s # <<>> /\ IsSpace(s[Len(s)]) THEN rstrip(SubSeq(s, 1, Len(s) - 1)) ELSE s

\* str.strip()
strip(s) == rstrip(lstrip(s))

\* re.sub(r'\.0$', '', s)
strip_dot_zero(s) ==
    IF Len(s) >= 2 /\ s[Len(s) - 1] = "." /\ s[Len(s)] = "0"
    THEN SubSeq(s, 1, Len(s) - 2)
    ELSE s

\* the text with its digits left in
remove_digits_none(s) == s

\* re.sub(r'\d+', '', s)
remove_digits(s) == SelectSeq(s, LAMBDA c : ~IsDigit(c))

normalize_string_nolower(s) ==
    IF isna(s) \/ s = <<>> THEN <<>> ELSE join(<<" ">>, split(strip(str(s))))

normalize_string(s) ==
    IF isna(s) \/ s = <<>> THEN <<>>
    ELSE join(<<" ">>, split(lower(strip(str(s)))))

\* [a-z0-9]
IsLowerAlnum(c) == IsDigit(c) \/ \E i \in 1..Len(LowerSeq) : LowerSeq[i] = c

\* re.sub(r'[^a-z0-9\s]', '', s)
remove_special(s) == SelectSeq(s, LAMBDA c : IsLowerAlnum(c) \/ IsSpace(c))

RECURSIVE collapse_spaces(_)
\* re.sub(r'\s+', ' ', s)
collapse_spaces(s) ==
    IF s = <<>> THEN <<>>
    ELSE IF IsSpace(s[1]) THEN <<" ">> \o collapse_spaces(lstrip(s))
    ELSE <<s[1]>> \o collapse_spaces(Tail(s))

\* the normalizer with the runs of spaces collapsed before the special
\* characters are removed, and nothing stripped after that
normalize_string_for_matching_collapse_first(text) ==
    IF isna(text) \/ text = <<>> THEN <<>>
    ELSE remove_special(collapse_spaces(strip(lower(str(text)))))

\* lines 55-64
normalize_string_for_matching(text) ==
    IF isna(text) \/ text = <<>> THEN <<>>
    ELSE strip(collapse_spaces(remove_special(strip(lower(str(text))))))

RECURSIVE numbersFrom(_, _, _)
numbersFrom(s, i, cur) ==
    IF i > Len(s)
    THEN IF cur = <<>> THEN <<>> ELSE <<cur>>
    ELSE IF ~IsDigit(s[i])
         THEN IF cur = <<>>
              THEN numbersFrom(s, i + 1, <<>>)
              ELSE <<cur>> \o numbersFrom(s, i + 1, <<>>)
         ELSE numbersFrom(s, i + 1, Append(cur, s[i]))

\* re.findall(r'\d+', s): the digit runs in order of appearance
extract_numbers(s) ==
    IF isna(s) \/ s = <<>> THEN <<>> ELSE numbersFrom(str(s), 1, <<>>)

(***************************************************************************)
(* difflib.SequenceMatcher(None, a, b).ratio() without junk.  Positions    *)
(* are 1-based and ranges inclusive.                                       *)
(***************************************************************************)
RECURSIVE RunLen(_, _, _, _, _, _)
RunLen(a, b, i, j, ahi, bhi) ==
    IF i > ahi \/ j > bhi THEN 0
    ELSE IF a[i] # b[j] THEN 0
    ELSE 1 + RunLen(a, b, i + 1, j + 1, ahi, bhi)

SetMax(S) == CHOOSE x \in S : \A y \in S : y <= x

SetMin(S) == CHOOSE x \in S : \A y \in S : x <= y

\* the longest matching block of a[alo..ahi] and b[blo..bhi]: of the longest
\* ones the one starting earliest in a, and of those the earliest in b
find_longest_match(a, b, alo, ahi, blo, bhi) ==
    IF alo > ahi \/ blo > bhi THEN <<alo, blo, 0>>
    ELSE LET run == [p \in (alo..ahi) \X (blo..bhi) |->
                        RunLen(a, b, p[1], p[2], ahi, bhi)]
             k == SetMax({run[p] : p \in DOMAIN run})
         IN  IF k = 0 THEN <<alo, blo, 0>>
             ELSE LET i == SetMin({p[1] : p \in {q \in DOMAIN run : run[q] = k}})
                      j == SetMin({q \in blo..bhi : run[<<i, q>>] = k})
                  IN  <<i, j, k>>

RECURSIVE matching_size(_, _, _, _, _, _)
\* the summed size of get_matching_blocks()
matching_size(a, b, alo, ahi, blo, bhi) ==
    LET m == find_longest_match(a, b, alo, ahi, blo, bhi)
    IN  IF m[3] = 0 THEN 0
        ELSE m[3]
             + matching_size(a, b, alo, m[1] - 1, blo, m[2] - 1)
             + matching_size(a, b, m[1] + m[3], ahi, m[2] + m[3], bhi)

\* ratio() >= pct / 100, with ratio() = 2.0 * matches / (len(a) + len(b))
ratio_at_least(a, b, pct) ==
    IF Len(a) + Len(b) = 0 THEN TRUE
    ELSE 200 * matching_size(a, b, 1, Len(a), 1, Len(b)) >= pct * (Len(a) + Len(b))

(***************************************************************************)
(* fuzzy_match_score (the address scorer); the threshold is in hundredths  *)
(***************************************************************************)
fuzzy_match_score_nonumcheck(str1, str2, threshold) ==
    LET str1_norm == normalize_string(str1)
        str2_norm == normalize_string(str2)
        str1_no_numbers == join(<<" ">>, split(strip(remove_digits(str1_norm))))
        str2_no_numbers == join(<<" ">>, split(strip(remove_digits(str2_norm))))
    IN  IF str1_norm = <<>> \/ str2_norm = <<>> THEN FALSE
        ELSE IF str1_no_numbers = <<>> \/ str2_no_numbers = <<>>
             THEN str1_norm = str2_norm
        ELSE IF str1_no_numbers = str2_no_numbers THEN TRUE
        ELSE ratio_at_least(str1_no_numbers, str2_no_numbers, threshold)

fuzzy_match_score(str1, str2, threshold) ==
    LET str1_norm == normalize_string(str1)
        str2_norm == normalize_string(str2)
        numbers1 == extract_numbers(str1)
        numbers2 == extract_numbers(str2)
        str1_no_numbers == join(<<" ">>, split(strip(remove_digits(str1_norm))))
        str2_no_numbers == join(<<" ">>, split(strip(remove_digits(str2_norm))))
    IN  IF str1_norm = <<>> \/ str2_norm = <<>> THEN FALSE
        ELSE IF numbers1 # <<>> /\ numbers2 # <<>> /\ numbers1 # numbers2 THEN FALSE
        ELSE IF str1_no_numbers = <<>> \/ str2_no_numbers = <<>>
             THEN str1_norm = str2_norm
        ELSE IF str1_no_numbers = str2_no_numbers THEN TRUE
        ELSE ratio_at_least(str1_no_numbers, str2_no_numbers, threshold)

\* threshold=0.7 of the street line, unit line and one-line comparisons
StreetThreshold == 70

\* threshold=0.8 of the city, state and ZIP comparisons, and the default
FieldThreshold == 80

(***************************************************************************)
(* DataFrames.  A column is <<title, number, copy>>: 'Location Cloud ID 2'  *)
(* is <<"Location Cloud ID", 2, 0>> and a title without a number has       *)
(* number 0.  A frame is [cols |-> sequence of columns, rows |-> sequence  *)
(* of rows], each row a function from the columns to cells.                *)
(***************************************************************************)
Emp == <<>>

Col(title) == <<title, 0, 0>>

ColN(title, n) == <<title, n, 0>>

C_AL1 == Col("Address Line 1")

C_AL2 == Col("Address Line 2")

C_CITY == Col("City")

C_STATE == Col("State")

C_ZIP == Col("ZIP")

C_PRACTICE_ID == Col("Practice ID")

C_PRACTICE_CLOUD_ID == Col("Practice Cloud ID")

C_PRACTICE_MONOLITH_ID == Col("Practice Monolith ID")

C_LOCATION_TYPE == Col("Location Type")

NRows(d) == Len(d.rows)

ColSet(d) == {d.cols[i] : i \in 1..Len(d.cols)}

HasCol(d, c) == c \in ColSet(d)

\* columns.get_loc(c) + 1: the 1-based position of column c
get_loc(d, c) == CHOOSE i \in 1..Len(d.cols) : d.cols[i] = c

\* row.get(c, ''), locations_df.at[r, c]
at(d, r, c) == IF HasCol(d, c) THEN d.rows[r][c] ELSE Emp

\* locations_df.at[r, c] = v
set_at(d, r, c, v) ==
    [d EXCEPT !.rows[r] = [x \in DOMAIN d.rows[r] |-> IF x = c THEN v ELSE d.rows[r][x]]]

\* locations_df.insert(idx, c, [''] * len(locations_df)); idx columns precede c
insert(d, idx, c) ==
    [d EXCEPT
       !.cols = SubSeq(d.cols, 1, idx) \o <<c>> \o SubSeq(d.cols, idx + 1, Len(d.cols)),
       !.rows = [r \in 1..NRows(d) |->
                   [x \in ColSet(d) \cup {c} |-> IF x = c THEN Emp ELSE d.rows[r][x]]]]

\* locations_df.drop(columns=[c])
drop(d, c) ==
    [d EXCEPT
       !.cols = SelectSeq(d.cols, LAMBDA x : x # c),
       !.rows = [r \in 1..NRows(d) |-> [x \in ColSet(d) \ {c} |-> d.rows[r][x]]]]

\* a cell that holds text: pd.notna(v) and str(v).strip() != ''
nonblank(v) == notna(v) /\ strip(str(v)) # Emp

\* copy 1 is a second column of the same label (DataFrame.rename onto a label
\* the frame already has); copy 2 is that column read back from the sheet,
\* where pandas shows it as '<label>.1'
reloaded_col(c) == IF c[3] = 1 THEN <<c[1], c[2], 2>> ELSE c

\* pd.read_excel of what to_excel wrote: an empty string is read back as NaN
\* and a repeated label is renamed '<label>.1'
read_excel(f) ==
    [cols |-> [i \in 1..Len(f.cols) |-> reloaded_col(f.cols[i])],
     rows |-> [r \in 1..Len(f.rows) |->
                 [x \in {reloaded_col(c) : c \in DOMAIN f.rows[r]} |->
                     LET c == CHOOSE y \in DOMAIN f.rows[r] : reloaded_col(y) = x
                     IN  IF f.rows[r][c] = Emp THEN NaN ELSE f.rows[r][c]]]]

\* the label pandas shows for a column
Label(d, c) == IF c[3] = 1 THEN <<c[1], c[2], 0>> ELSE c

HasLabel(d, l) == \E i \in 1..Len(d.cols) : Label(d, d.cols[i]) = l

(***************************************************************************)
(* The catalog (the Locations sheet of Practice_Locations.xlsx) is a       *)
(* sequence of records with the fields location_id, monolith_location_id,  *)
(* address_1, address_2, city, state, zip, location_type,                  *)
(* practice_monolith_id, practice_cloud_id; a field is text or NaN.        *)
(***************************************************************************)
Indices(seq) == [i \in 1..Len(seq) |-> i]

\* the truth value of `v and str(v).strip()`: NaN is truthy and reads 'nan'
truthy_text(v) == v # Emp /\ strip(str(v)) # Emp

\* the id cleanup of the practice arguments (lines 1531-1545); NaN stands for None
clean_practice_arg(v) ==
    IF isna(v) THEN NaN
    ELSE IF strip_dot_zero(strip(str(v))) = Emp THEN NaN
    ELSE strip_dot_zero(strip(str(v)))

\* the filter that keeps the whole catalog for every row
practice_filter_whole_catalog(api, practice_id, practice_cloud_id) == Indices(api)

\* lines 1547-1567: the catalog rows of the row's practice
practice_filter(api, practice_id, practice_cloud_id) ==
    LET practice_id_str == clean_practice_arg(practice_id)
        practice_cloud_id_str == clean_practice_arg(practice_cloud_id)
        by_monolith(i) ==
            strip_dot_zero(strip(str(api[i].practice_monolith_id))) = practice_id_str
        by_cloud(i) == strip(str(api[i].practice_cloud_id)) = practice_cloud_id_str
    IN  IF notna(practice_id_str) /\ notna(practice_cloud_id_str)
        THEN SelectSeq(Indices(api), LAMBDA i : by_monolith(i) \/ by_cloud(i))
        ELSE IF notna(practice_id_str)
        THEN SelectSeq(Indices(api), by_monolith)
        ELSE IF notna(practice_cloud_id_str)
        THEN SelectSeq(Indices(api), by_cloud)
        ELSE Indices(api)

\* lines 1606-1620: the candidate's address parts that are kept, stripped
concat_parts(rec) ==
    LET fields == <<rec.address_1, rec.address_2, rec.city, rec.state, rec.zip>>
        kept == SelectSeq(fields, truthy_text)
    IN  [i \in 1..Len(kept) |-> strip(str(kept[i]))]

\* lines 1593-1629: the single-line branch
concatenated_address_matches(addr_line1_norm, api, filtered) ==
    SelectSeq(filtered,
              LAMBDA i :
                 LET combined_norm == normalize_string(join(<<" ">>, concat_parts(api[i])))
                 IN  combined_norm # Emp
                     /\ fuzzy_match_score(addr_line1_norm, combined_norm, StreetThreshold))

\* the stage that takes the filtered list even when it is empty
narrow_always(matches, filtered_matches) == filtered_matches

\* a city / state / ZIP stage: the filtered list replaces the list only when
\* it is not empty (lines 1668-1705)
narrow_if_any(matches, filtered_matches) ==
    IF filtered_matches # <<>> THEN filtered_matches ELSE matches

\* lines 1644-1666: the address line 2 stage
line2_stage(addr_line2_norm, api, matches) ==
    SelectSeq(matches,
              LAMBDA i :
                 LET api_addr2_norm == normalize_string(api[i].address_2)
                 IN  IF addr_line2_norm = Emp
                     THEN api_addr2_norm = Emp
                     ELSE api_addr2_norm # Emp
                          /\ fuzzy_match_score(addr_line2_norm, api_addr2_norm, StreetThreshold))

\* lines 1668-1705: the city, state and ZIP stages, in that order
city_state_zip_stages(city_norm, state_norm, zip_norm, api, matches) ==
    LET after_city ==
            IF city_norm # Emp
            THEN narrow_if_any(matches, SelectSeq(matches,
                    LAMBDA i : fuzzy_match_score(city_norm, normalize_string(api[i].city), FieldThreshold)))
            ELSE matches
        after_state ==
            IF state_norm # Emp
            THEN narrow_if_any(after_city, SelectSeq(after_city,
                    LAMBDA i : fuzzy_match_score(state_norm, normalize_string(api[i].state), FieldThreshold)))
            ELSE after_city
    IN  IF zip_norm # Emp
        THEN narrow_if_any(after_state, SelectSeq(after_state,
                LAMBDA i : fuzzy_match_score(zip_norm, normalize_string(api[i].zip), FieldThreshold)))
        ELSE after_state

\* lines 1631-1705: the multi-field branch
multi_field_matches(n, api, filtered) ==
    LET line1 == SelectSeq(filtered,
                    LAMBDA i : fuzzy_match_score(n.addr1, normalize_string(api[i].address_1), StreetThreshold))
    IN  IF line1 = <<>> THEN <<>>
        ELSE city_state_zip_stages(n.city, n.state, n.zip, api,
                                   line2_stage(n.addr2, api, line1))

\* the row's five address cells, normalised (lines 1572-1584)
normalized_row(d, r) ==
    [addr1 |-> normalize_string(at(d, r, C_AL1)),
     addr2 |-> normalize_string(at(d, r, C_AL2)),
     city  |-> normalize_string(at(d, r, C_CITY)),
     state |-> normalize_string(at(d, r, C_STATE)),
     zip   |-> normalize_string(at(d, r, C_ZIP))]

\* line 1591: decided from the row's own cells
only_address_line1_mapped_row(n) ==
    n.addr2 = Emp /\ n.city = Emp /\ n.state = Emp /\ n.zip = Emp

\* lines 1569-1705: the candidates left after all filters, as catalog indices
surviving_candidates(d, r, api, practice_id, practice_cloud_id) ==
    LET filtered == practice_filter(api, practice_id, practice_cloud_id)
        n == normalized_row(d, r)
    IN  IF filtered = <<>> THEN <<>>
        ELSE IF n.addr1 = Emp THEN <<>>
        ELSE IF only_address_line1_mapped_row(n)
        THEN concatenated_address_matches(n.addr1, api, filtered)
        ELSE multi_field_matches(n, api, filtered)

\* the matcher returning every candidate left
match_location_by_address_all(d, r, api, practice_id, practice_cloud_id) ==
    surviving_candidates(d, r, api, practice_id, practice_cloud_id)

\* lines 1707-1724: a candidate is returned when it has both location ids
match_location_by_address(d, r, api, practice_id, practice_cloud_id) ==
    SelectSeq(surviving_candidates(d, r, api, practice_id, practice_cloud_id),
              LAMBDA i : notna(api[i].monolith_location_id) /\ notna(api[i].location_id))

\* '' for a missing or empty field, else its stripped text
text_or_empty(v) == IF notna(v) /\ v # Emp THEN strip(str(v)) ELSE Emp

\* the tuple match_location_by_address returns for catalog row rec
match_tuple(rec) ==
    [monolith_location_id |-> strip_dot_zero(strip(str(rec.monolith_location_id))),
     location_id          |-> rec.location_id,
     location_type        |-> IF notna(rec.location_type) THEN strip(str(rec.location_type)) ELSE Emp,
     practice_monolith_id |-> text_or_empty(rec.practice_monolith_id),
     practice_cloud_id    |-> text_or_empty(rec.practice_cloud_id)]

RECURSIVE zfill(_, _)
\* str.zfill(width)
zfill(s, width) == IF Len(s) >= width THEN s ELSE zfill(<<"0">> \o s, width)

isdigit(s) == s # Emp /\ \A i \in 1..Len(s) : IsDigit(s[i])

\* lines 1418-1430: the ZIP written into the row
zip_text(zip_code) ==
    LET zip_str == strip(str(zip_code))
    IN  IF isdigit(zip_str) /\ Len(zip_str) < 5 THEN zfill(zip_str, 5) ELSE zip_str

\* lines 1358-1433: the row's address cells are overwritten from the first
\* catalog row whose cleaned location_id is the given id
replace_address_values_from_matched_location(d, api, r, location_cloud_id) ==
    IF isna(location_cloud_id) \/ strip(str(location_cloud_id)) = Emp THEN d
    ELSE LET location_cloud_id_str == strip_dot_zero(strip(str(location_cloud_id)))
             matched_location ==
                 SelectSeq(Indices(api),
                    LAMBDA i : strip_dot_zero(strip(str(api[i].location_id)))
                                   = location_cloud_id_str)
         IN  IF matched_location = <<>> THEN d
             ELSE LET rec == api[matched_location[1]]
                      d1 == IF HasCol(d, C_AL1)
                            THEN set_at(d, r, C_AL1, text_or_empty(rec.address_1)) ELSE d
                      d2 == IF HasCol(d, C_AL2)
                            THEN set_at(d1, r, C_AL2, text_or_empty(rec.address_2)) ELSE d1
                      d3 == IF HasCol(d, C_CITY)
                            THEN set_at(d2, r, C_CITY, text_or_empty(rec.city)) ELSE d2
                      d4 == IF HasCol(d, C_STATE)
                            THEN set_at(d3, r, C_STATE, text_or_empty(rec.state)) ELSE d3
                  IN  IF HasCol(d, C_ZIP) /\ notna(rec.zip) /\ rec.zip # Emp
                      THEN set_at(d4, r, C_ZIP, zip_text(rec.zip))
                      ELSE d4

(***************************************************************************)
(* add_location_cloud_ids_to_locations_input: the choice of the strategy.  *)
(***************************************************************************)
\* the share of filled cells above which a Location ID column counts as mapped
MostlyEmptyPct == 20

\* line 1982
location_id_columns(d) == SelectSeq(d.cols, LAMBDA c : c[1] = "Location ID")

\* lines 2008-2010
non_empty_count(d, c) == Cardinality({r \in 1..NRows(d) : nonblank(at(d, r, c))})

\* the test asking every Location ID column to be more than 20% filled
needs_fuzzy_matching_unless_all(d) ==
    ~ \A i \in 1..Len(location_id_columns(d)) :
          /\ NRows(d) > 0
          /\ 100 * non_empty_count(d, location_id_columns(d)[i]) > MostlyEmptyPct * NRows(d)

\* lines 2001-2016: FALSE when some Location ID column is more than 20% filled
needs_fuzzy_matching_of(d) ==
    ~ \E i \in 1..Len(location_id_columns(d)) :
          /\ NRows(d) > 0
          /\ 100 * non_empty_count(d, location_id_columns(d)[i]) > MostlyEmptyPct * NRows(d)

\* not col.isna().all() and not (col.astype(str).str.strip() == '').all()
has_values(d, c) ==
    /\ ~ \A r \in 1..NRows(d) : isna(at(d, r, c))
    /\ ~ \A r \in 1..NRows(d) : strip(str(at(d, r, c))) = Emp

\* lines 2028-2055
only_state_mapped_of(d) ==
    /\ HasCol(d, C_STATE)
    /\ needs_fuzzy_matching_of(d)
    /\ has_values(d, C_STATE)
    /\ \A c \in {C_AL1, C_AL2, C_CITY, C_ZIP} : HasCol(d, c) => ~ has_values(d, c)

\* lines 2282-2306: the dataset-level test whose only effect is the message
only_address_line1_mapped_of(d) ==
    /\ HasCol(d, C_AL1) /\ has_values(d, C_AL1)
    /\ \A c \in {C_AL2, C_CITY, C_STATE, C_ZIP} : HasCol(d, c) => ~ has_values(d, c)

\* the case the run announces for the frame
selected_case(d) ==
    IF ~ needs_fuzzy_matching_of(d) THEN 1
    ELSE IF only_state_mapped_of(d) THEN 2
    ELSE IF only_address_line1_mapped_of(d) THEN 4
    ELSE 3

(***************************************************************************)
(* Case 2: matching by State (lines 2057-2275).                            *)
(***************************************************************************)
RECURSIVE split_comma(_)
\* s.split(',')
split_comma(s) ==
    IF \E i \in 1..Len(s) : s[i] = ","
    THEN LET i == CHOOSE k \in 1..Len(s) : s[k] = "," /\ \A j \in 1..(k - 1) : s[j] # ","
         IN  <<SubSeq(s, 1, i - 1)>> \o split_comma(SubSeq(s, i + 1, Len(s)))
    ELSE <<s>>

\* line 2085
state_list(state_value_str) ==
    LET parts == split_comma(state_value_str)
        stripped == [i \in 1..Len(parts) |-> strip(parts[i])]
    IN  SelectSeq(stripped, LAMBDA x : x # Emp)

\* lines 2100-2103: the catalog rows of a state, in catalog order
matching_rows(api, state_item_norm) ==
    SelectSeq(Indices(api),
              LAMBDA i : normalize_string(strip(str(api[i].state))) = state_item_norm)

\* lines 2114-2149: the match recorded for a catalog row
state_match_info(rec) ==
    [location_id          |-> strip_dot_zero(strip(str(rec.location_id))),
     monolith_location_id |-> IF notna(rec.monolith_location_id)
                              THEN strip_dot_zero(strip(str(rec.monolith_location_id)))
                              ELSE Emp,
     location_type        |-> IF notna(rec.location_type) THEN strip(str(rec.location_type)) ELSE Emp,
     practice_monolith_id |-> strip_dot_zero(text_or_empty(rec.practice_monolith_id)),
     practice_cloud_id    |-> text_or_empty(rec.practice_cloud_id)]

RECURSIVE state_matches(_, _)
\* lines 2094-2149: the first catalog row of each listed state, when it has a
\* location_id; the result lists catalog indices
state_matches(api, states) ==
    IF states = <<>> THEN <<>>
    ELSE LET state_item_norm == normalize_string(Head(states))
             rows == matching_rows(api, state_item_norm)
             here == IF state_item_norm # Emp /\ rows # <<>> /\ notna(api[rows[1]].location_id)
                     THEN <<rows[1]>> ELSE <<>>
         IN  here \o state_matches(api, Tail(states))

\* lines 2076-2149
matches_for_row(d, r, api) ==
    LET state_value == at(d, r, C_STATE)
    IN  IF isna(state_value) \/ strip(str(state_value)) = Emp THEN <<>>
        ELSE state_matches(api, state_list(strip(str(state_value))))

\* the Location ID column with the largest number (lines 2170-2176)
last_location_id_col(d) ==
    LET cols == location_id_columns(d)
    IN  CHOOSE c \in {cols[i] : i \in 1..Len(cols)} :
            \A i \in 1..Len(cols) : cols[i][2] <= c[2]

\* a column is inserted at the running position when it is missing
ensure_column(st, c) ==
    IF ~ HasCol(st.d, c)
    THEN [d |-> insert(st.d, st.idx, c), idx |-> st.idx + 1]
    ELSE [d |-> st.d, idx |-> get_loc(st.d, c)]

\* lines 2157-2213: the five columns of match number i
state_match_columns(d, i) ==
    LET start == IF i = 1
                 THEN IF location_id_columns(d) # <<>>
                      THEN get_loc(d, last_location_id_col(d))
                      ELSE Len(d.cols)
                 ELSE IF HasCol(d, ColN("Location Type", i - 1))
                      THEN get_loc(d, ColN("Location Type", i - 1))
                      ELSE Len(d.cols)
        s1 == ensure_column([d |-> d, idx |-> start], ColN("Location Monolith ID", i))
        s2 == ensure_column(s1, ColN("Location Cloud ID", i))
        s3 == ensure_column(s2, ColN("Location Type", i))
        s4 == ensure_column(s3, ColN("Practice Monolith ID", i))
    IN  ensure_column(s4, ColN("Practice Cloud ID", i)).d

\* lines 2215-2222: the five cells of match number i
write_state_match(d, r, i, info) ==
    LET d1 == set_at(d, r, ColN("Location Monolith ID", i), info.monolith_location_id)
        d2 == set_at(d1, r, ColN("Location Cloud ID", i), info.location_id)
        d3 == set_at(d2, r, ColN("Location Type", i), Emp)
        d4 == set_at(d3, r, ColN("Practice Monolith ID", i), info.practice_monolith_id)
    IN  set_at(d4, r, ColN("Practice Cloud ID", i), info.practice_cloud_id)

RECURSIVE populate_state_matches(_, _, _, _, _)
populate_state_matches(d, r, api, found, i) ==
    IF i > Len(found) THEN d
    ELSE populate_state_matches(
             write_state_match(state_match_columns(d, i), r, i, state_match_info(api[found[i]])),
             r, api, found, i + 1)

\* the State matching of a row that leaves its 'Location Type' as it is
state_only_row_keeps_type(d, r, api) ==
    LET found == matches_for_row(d, r, api)
    IN  IF found = <<>> THEN d
        ELSE LET d1 == populate_state_matches(d, r, api, found, 1)
                 first_match_cloud_id == state_match_info(api[found[1]]).location_id
             IN  IF first_match_cloud_id # Emp
                 THEN replace_address_values_from_matched_location(d1, api, r, first_match_cloud_id)
                 ELSE d1

\* lines 2152-2233: one row of the State matching
state_only_row(d, r, api) ==
    LET found == matches_for_row(d, r, api)
    IN  IF found = <<>> THEN d
        ELSE LET d1 == populate_state_matches(d, r, api, found, 1)
                 d2 == IF HasCol(d1, C_LOCATION_TYPE) THEN set_at(d1, r, C_LOCATION_TYPE, Emp) ELSE d1
                 first_match_cloud_id == state_match_info(api[found[1]]).location_id
             IN  IF first_match_cloud_id # Emp
                 THEN replace_address_values_from_matched_location(d2, api, r, first_match_cloud_id)
                 ELSE d2

RECURSIVE state_only_rows(_, _, _)
state_only_rows(d, r, api) ==
    IF r > NRows(d) THEN d ELSE state_only_rows(state_only_row(d, r, api), r + 1, api)

\* lines 2057-2240: the frame after the State matching
state_only_matching(d, api) == state_only_rows(d, 1, api)

(***************************************************************************)
(* Cases 3 and 4: matching by address (lines 2277-2412).                   *)
(***************************************************************************)
\* row.get('Practice ID') or row.get('Practice Monolith ID'); NaN stands for None
practice_id_of_row(d, r) ==
    IF HasCol(d, C_PRACTICE_ID) /\ at(d, r, C_PRACTICE_ID) # Emp
    THEN at(d, r, C_PRACTICE_ID)
    ELSE IF HasCol(d, C_PRACTICE_MONOLITH_ID) THEN at(d, r, C_PRACTICE_MONOLITH_ID)
    ELSE NaN

practice_cloud_id_of_row(d, r) ==
    IF HasCol(d, C_PRACTICE_CLOUD_ID) THEN at(d, r, C_PRACTICE_CLOUD_ID) ELSE NaN

\* lines 2343-2349: an id is passed on only when it holds text
valid_or_none(v) == IF nonblank(v) THEN v ELSE NaN

\* lines 2313-2317
drop_unnumbered_id_columns(d) ==
    LET d1 == IF HasCol(d, Col("Location ID")) THEN drop(d, Col("Location ID")) ELSE d
    IN  IF HasCol(d1, Col("Location Cloud ID")) THEN drop(d1, Col("Location Cloud ID")) ELSE d1

\* lines 2338-2362: the matches of every row, as catalog indices
all_matches(d, api) ==
    [r \in 1..NRows(d) |->
        match_location_by_address(d, r, api,
                                  valid_or_none(practice_id_of_row(d, r)),
                                  valid_or_none(practice_cloud_id_of_row(d, r)))]

max_matches_of(found) ==
    SetMax({1} \cup {Len(found[r]) : r \in DOMAIN found})

\* locations_df[c] = [''] * len(locations_df) when the frame lacks column c
append_if_missing(d, c) == IF HasCol(d, c) THEN d ELSE insert(d, Len(d.cols), c)

RECURSIVE create_match_columns(_, _, _)
\* lines 2364-2381
create_match_columns(d, match_num, max_matches) ==
    IF match_num > max_matches THEN d
    ELSE create_match_columns(
            append_if_missing(
              append_if_missing(
                append_if_missing(
                  append_if_missing(
                    append_if_missing(d, ColN("Location ID", match_num)),
                    ColN("Location Cloud ID", match_num)),
                  ColN("Location Type", match_num)),
                ColN("Practice Monolith ID", match_num)),
              ColN("Practice Cloud ID", match_num)),
            match_num + 1, max_matches)

\* lines 2387-2402: the five cells of one match
write_match(d, r, col_num, t) ==
    LET d1 == set_at(d, r, ColN("Location ID", col_num), t.monolith_location_id)
        d2 == set_at(d1, r, ColN("Location Cloud ID", col_num), t.location_id)
        d3 == set_at(d2, r, ColN("Location Type", col_num), t.location_type)
        d4 == set_at(d3, r, ColN("Practice Monolith ID", col_num), t.practice_monolith_id)
    IN  set_at(d4, r, ColN("Practice Cloud ID", col_num), t.practice_cloud_id)

RECURSIVE fill_matches(_, _, _, _, _)
fill_matches(d, r, api, found, k) ==
    IF k > Len(found) THEN d
    ELSE fill_matches(write_match(d, r, k, match_tuple(api[found[k]])), r, api, found, k + 1)

\* lines 2384-2408: one row of the fill
fill_row(d, r, api, found) ==
    IF found = <<>> THEN d
    ELSE LET d1 == fill_matches(d, r, api, found, 1)
             first_match_cloud_id == api[found[1]].location_id
         IN  IF first_match_cloud_id # Emp
             THEN replace_address_values_from_matched_location(d1, api, r, first_match_cloud_id)
             ELSE d1

RECURSIVE fill_rows(_, _, _, _)
fill_rows(d, r, api, found) ==
    IF r > NRows(d) THEN d
    ELSE fill_rows(fill_row(d, r, api, found[r]), r + 1, api, found)

\* lines 2277-2410: the frame after the address matching
fuzzy_matching(d, api) ==
    LET d0 == drop_unnumbered_id_columns(d)
        found == all_matches(d0, api)
    IN  fill_rows(create_match_columns(d0, 1, max_matches_of(found)), 1, api, found)

(***************************************************************************)
(* Case 1: mapping of the given ids (lines 2414-2568).                     *)
(***************************************************************************)
\* the key under which a catalog row enters the maps (lines 2431, 2445)
map_key(rec) == strip_dot_zero(strip(str(rec.monolith_location_id)))

\* line 2444: `if monolith_id and cloud_id`
enters_map(rec) ==
    /\ notna(rec.monolith_location_id) /\ strip(str(rec.monolith_location_id)) # Emp
    /\ notna(rec.location_id) /\ rec.location_id # Emp

\* the maps in which a later catalog row replaces an earlier one of the same id
map_rows_last_wins(api, loc_id_str) ==
    LET rows == SelectSeq(Indices(api), LAMBDA i : enters_map(api[i]) /\ map_key(api[i]) = loc_id_str)
    IN  [k \in 1..Len(rows) |-> rows[Len(rows) + 1 - k]]

\* the catalog rows that enter the maps under loc_id_str; the first one is kept
map_rows(api, loc_id_str) ==
    SelectSeq(Indices(api), LAMBDA i : enters_map(api[i]) /\ map_key(api[i]) = loc_id_str)

\* the cleaned id of a cell (lines 2513-2514)
clean_loc_id(v) == strip_dot_zero(strip(str(v)))

\* the companion columns of a Location ID column (lines 2474-2492)
companion(location_id_col, title) == <<title, location_id_col[2], 0>>

\* lines 2494-2512: the companions are inserted one after the other
direct_columns(d, location_id_col) ==
    LET cloud == companion(location_id_col, "Location Cloud ID")
        ltype == companion(location_id_col, "Location Type")
        pmid  == companion(location_id_col, "Practice Monolith ID")
        pcid  == companion(location_id_col, "Practice Cloud ID")
        d1 == IF HasCol(d, cloud) THEN d ELSE insert(d, get_loc(d, location_id_col), cloud)
        d2 == IF HasCol(d1, ltype) THEN d1 ELSE insert(d1, get_loc(d1, cloud), ltype)
        d3 == IF HasCol(d2, pmid) THEN d2 ELSE insert(d2, get_loc(d2, ltype), pmid)
    IN  IF HasCol(d3, pcid) THEN d3 ELSE insert(d3, get_loc(d3, pmid), pcid)

\* lines 2515-2522: the four cells written for a row that carries an id
direct_cells(d, r, api, location_id_col) ==
    LET loc_id == at(d, r, location_id_col)
        rows == map_rows(api, clean_loc_id(loc_id))
        hit == rows # <<>>
        rec == api[rows[1]]
        d1 == set_at(d, r, companion(location_id_col, "Location Cloud ID"),
                     IF hit THEN rec.location_id ELSE Emp)
        d2 == set_at(d1, r, companion(location_id_col, "Practice Cloud ID"),
                     IF hit THEN text_or_empty(rec.practice_cloud_id) ELSE Emp)
        d3 == set_at(d2, r, companion(location_id_col, "Practice Monolith ID"),
                     IF hit THEN text_or_empty(rec.practice_monolith_id) ELSE Emp)
    IN  IF nonblank(loc_id)
        THEN set_at(d3, r, companion(location_id_col, "Location Type"),
                    IF hit /\ notna(rec.location_type) THEN strip(str(rec.location_type)) ELSE Emp)
        ELSE d

RECURSIVE direct_rows(_, _, _, _)
direct_rows(d, r, api, location_id_col) ==
    IF r > NRows(d) THEN d
    ELSE direct_rows(direct_cells(d, r, api, location_id_col), r + 1, api, location_id_col)

RECURSIVE direct_id_columns(_, _, _, _)
\* lines 2472-2522: every Location ID column in turn
direct_id_columns(d, api, cols, k) ==
    IF k > Len(cols) THEN d
    ELSE direct_id_columns(direct_rows(direct_columns(d, cols[k]), 1, api, cols[k]),
                           api, cols, k + 1)

\* lines 2528-2538: the Location ID columns of the row whose id is in the maps
matched_id_columns(d, r, api, cols) ==
    SelectSeq(cols, LAMBDA c : nonblank(at(d, r, c)) /\ map_rows(api, clean_loc_id(at(d, r, c))) # <<>>)

\* lines 2526-2542
direct_address_row(d, r, api, cols) ==
    LET hits == matched_id_columns(d, r, api, cols)
    IN  IF hits = <<>> THEN d
        ELSE replace_address_values_from_matched_location(
                 d, api, r, api[map_rows(api, clean_loc_id(at(d, r, hits[1])))[1]].location_id)

RECURSIVE direct_address_rows(_, _, _, _)
direct_address_rows(d, r, api, cols) ==
    IF r > NRows(d) THEN d
    ELSE direct_address_rows(direct_address_row(d, r, api, cols), r + 1, api, cols)

\* DataFrame.rename of one label.  When the frame already has the new label
\* the two columns share it, and the one that stands second is the copy
rename(d, c, title) ==
    LET first == <<title, c[2], 0>>
        copy == <<title, c[2], 1>>
        clash == HasCol(d, first)
        c_leads == clash /\ get_loc(d, c) < get_loc(d, first)
        to(x) == IF x = c THEN (IF clash /\ ~ c_leads THEN copy ELSE first)
                 ELSE IF x = first /\ c_leads THEN copy
                 ELSE x
    IN  [cols |-> [i \in 1..Len(d.cols) |-> to(d.cols[i])],
         rows |-> [r \in 1..NRows(d) |->
                     [y \in {to(x) : x \in ColSet(d)} |->
                         d.rows[r][CHOOSE x \in ColSet(d) : to(x) = y]]]]

RECURSIVE rename_location_id_columns(_, _, _)
\* lines 2544-2562
rename_location_id_columns(d, cols, k) ==
    IF k > Len(cols) THEN d
    ELSE rename_location_id_columns(
             IF HasCol(d, cols[k]) THEN rename(d, cols[k], "Location Monolith ID") ELSE d,
             cols, k + 1)

\* lines 2414-2562: the frame after the direct mapping; cols are the
\* Location ID columns found when the file was read
direct_mapping(d, api, cols) ==
    rename_location_id_columns(
        direct_address_rows(direct_id_columns(d, api, cols, 1), 1, api, cols),
        cols, 1)

(***************************************************************************)
(* The column order of the saved sheet (lines 2570-2731 and 2886-2963).    *)
(***************************************************************************)
\* lines 2576-2586
base_columns ==
    <<Col("NPI Number"), Col("First Name"), Col("Last Name"),
      C_AL1, C_AL2, C_CITY, C_STATE, C_ZIP, C_PRACTICE_ID>>

\* the sort key of a column without a trailing number (line 2593)
UnnumberedKey == 999

\* a label '<title> n.1' made by the reload: it ends in no number
renamed_on_reload(d, c) == c[3] = 2

RECURSIVE sorted_by_key(_)
\* sorted(cols, key=...) over <<key, label>> pairs; the sort is stable
sorted_by_key(pairs) ==
    IF pairs = <<>> THEN <<>>
    ELSE LET m == SetMin({pairs[i][1] : i \in 1..Len(pairs)})
             i == CHOOSE k \in 1..Len(pairs) :
                      pairs[k][1] = m /\ \A j \in 1..(k - 1) : pairs[j][1] # m
         IN  <<pairs[i]>>
             \o sorted_by_key(SubSeq(pairs, 1, i - 1) \o SubSeq(pairs, i + 1, Len(pairs)))

\* lines 2589-2594
location_id_cols_sorted(d) ==
    LET ids == SelectSeq(d.cols, LAMBDA c : c[1] \in {"Location Monolith ID", "Location ID"})
    IN  sorted_by_key([i \in 1..Len(ids) |->
                         <<IF ids[i][2] = 0 \/ renamed_on_reload(d, ids[i])
                           THEN UnnumberedKey ELSE ids[i][2],
                           Label(d, ids[i])>>])

RECURSIVE append_new(_, _)
\* each label is appended unless the order already lists it
append_new(order, labels) ==
    IF labels = <<>> THEN order
    ELSE append_new(IF \E i \in 1..Len(order) : order[i] = Head(labels)
                    THEN order ELSE Append(order, Head(labels)),
                    Tail(labels))

\* lines 2606-2640: an id column and its companions of the same number
id_group(d, l) ==
    <<l>> \o (IF renamed_on_reload(d, l) THEN <<>>
              ELSE SelectSeq(<<<<"Location Cloud ID", l[2], 0>>,
                               <<"Practice Cloud ID", l[2], 0>>,
                               <<"Location Type", l[2], 0>>>>,
                             LAMBDA c : HasLabel(d, c)))

RECURSIVE id_groups(_, _, _)
id_groups(d, order, pairs) ==
    IF pairs = <<>> THEN order
    ELSE id_groups(d, append_new(order, id_group(d, Head(pairs)[2])), Tail(pairs))

\* lines 2597-2645
column_order(d) ==
    LET base == SelectSeq(base_columns, LAMBDA c : HasLabel(d, c))
        grouped == id_groups(d, base, location_id_cols_sorted(d))
    IN  append_new(grouped, [i \in 1..Len(d.cols) |-> Label(d, d.cols[i])])

RECURSIVE select_labels(_, _)
\* locations_df[column_order]: every column of each label, in frame order
select_labels(d, order) ==
    IF order = <<>> THEN <<>>
    ELSE SelectSeq(d.cols, LAMBDA c : Label(d, c) = Head(order)) \o select_labels(d, Tail(order))

reorder(d) == [d EXCEPT !.cols = select_labels(d, column_order(d))]

(***************************************************************************)
(* add_virtual_locations_after_matching (lines 1727-1930).                 *)
(***************************************************************************)
\* the address_1 of a virtual location
VirtualAddress == <<"-", "-">>

\* lines 1755-1758
all_location_cloud_id_columns(d) == SelectSeq(d.cols, LAMBDA c : c[1] = "Location Cloud ID")

\* lines 1796-1806: the catalog rows of the state whose address_1 is '--'
virtual_locations(api, state_norm) ==
    SelectSeq(Indices(api),
        LAMBDA i : /\ normalize_string(strip(str(api[i].state))) = state_norm
                   /\ strip(str(api[i].address_1)) = VirtualAddress)

\* the pass without the test of lines 1843-1857
virtual_never_exists(d, r, virtual_location_id_str) == FALSE

\* lines 1843-1853
virtual_already_exists(d, r, virtual_location_id_str) ==
    \E i \in 1..Len(d.cols) :
        /\ d.cols[i][1] = "Location Cloud ID"
        /\ notna(at(d, r, d.cols[i]))
        /\ strip_dot_zero(strip(str(at(d, r, d.cols[i])))) = virtual_location_id_str

\* the highest Location Cloud ID column, whether or not the row fills it
max_number_of_frame(d, r, cloud_cols) ==
    SetMax({0} \cup {IF cloud_cols[i][2] = 0 THEN 1 ELSE cloud_cols[i][2] :
                       i \in 1..Len(cloud_cols)})

\* lines 1859-1872: the highest Location Cloud ID column, of those the frame
\* had when the pass began, that holds a value in the row
max_number_for_row(d, r, cloud_cols) ==
    SetMax({0} \cup {IF cloud_cols[i][2] = 0 THEN 1 ELSE cloud_cols[i][2] :
                       i \in {j \in 1..Len(cloud_cols) : nonblank(at(d, r, cloud_cols[j]))}})

\* lines 1885-1898: the position after the last Location Cloud ID column
virtual_insert_idx(d, cloud_cols) ==
    IF cloud_cols = <<>> THEN Len(d.cols)
    ELSE LET sorted_cols == sorted_by_key([i \in 1..Len(cloud_cols) |->
                                              <<cloud_cols[i][2], cloud_cols[i]>>])
         IN  get_loc(d, sorted_cols[Len(sorted_cols)][2])

insert_if_missing(st, c) ==
    IF HasCol(st.d, c) THEN st
    ELSE [d |-> insert(st.d, st.idx, c), idx |-> st.idx + 1]

\* lines 1900-1926: the four columns and the four cells of the virtual location
write_virtual(d, r, rec, n, cloud_cols) ==
    LET s1 == insert_if_missing([d |-> d, idx |-> virtual_insert_idx(d, cloud_cols)],
                                ColN("Location ID", n))
        s2 == insert_if_missing(s1, ColN("Location Cloud ID", n))
        s3 == insert_if_missing(s2, ColN("Practice Cloud ID", n))
        s4 == insert_if_missing(s3, ColN("Location Type", n))
        d1 == set_at(s4.d, r, ColN("Location ID", n),
                     IF notna(rec.monolith_location_id)
                     THEN strip_dot_zero(strip(str(rec.monolith_location_id))) ELSE Emp)
        d2 == set_at(d1, r, ColN("Location Cloud ID", n),
                     strip_dot_zero(strip(str(rec.location_id))))
        d3 == set_at(d2, r, ColN("Location Type", n),
                     IF notna(rec.location_type) THEN strip(str(rec.location_type)) ELSE Emp)
    IN  set_at(d3, r, ColN("Practice Cloud ID", n), text_or_empty(rec.practice_cloud_id))

\* the guard without the test of the classification
virtual_row_guard_any_type(d, r) ==
    /\ nonblank(at(d, r, C_STATE))
    /\ normalize_string(strip(str(at(d, r, C_STATE)))) # Emp

\* lines 1772-1794: the row is classified 'Both' or 'Virtual' and names a state
virtual_row_guard(d, r) ==
    /\ notna(at(d, r, C_LOCATION_TYPE))
    /\ strip(str(at(d, r, C_LOCATION_TYPE))) \in {<<"B", "o", "t", "h">>,
                                                  <<"V", "i", "r", "t", "u", "a", "l">>}
    /\ nonblank(at(d, r, C_STATE))
    /\ normalize_string(strip(str(at(d, r, C_STATE)))) # Emp

\* lines 1770-1928: one row of the pass
virtual_row(d, r, api, cloud_cols) ==
    IF ~ virtual_row_guard(d, r) THEN d
    ELSE LET found == virtual_locations(api, normalize_string(strip(str(at(d, r, C_STATE)))))
             rec == api[found[1]]
             virtual_location_id_str == strip_dot_zero(strip(str(rec.location_id)))
         IN  IF found = <<>> THEN d
             ELSE IF isna(rec.location_id) THEN d
             ELSE IF virtual_already_exists(d, r, virtual_location_id_str) THEN d
             ELSE write_virtual(d, r, rec, max_number_for_row(d, r, cloud_cols) + 1, cloud_cols)

RECURSIVE virtual_rows(_, _, _, _)
virtual_rows(d, r, api, cloud_cols) ==
    IF r > NRows(d) THEN d
    ELSE virtual_rows(virtual_row(d, r, api, cloud_cols), r + 1, api, cloud_cols)

\* the frame after the pass
add_virtual_locations_after_matching(d, api) ==
    IF ~ HasCol(d, C_LOCATION_TYPE) \/ ~ HasCol(d, C_STATE) THEN d
    ELSE IF all_location_cloud_id_columns(d) = <<>> THEN d
    ELSE virtual_rows(d, 1, api, all_location_cloud_id_columns(d))

(***************************************************************************)
(* format_address_lines.py: the pass create_locations_input_excel runs     *)
(* over Locations_input.xlsx before the catalog is fetched                 *)
(* (create_locations_input.py lines 839-854).                              *)
(***************************************************************************)
upperChar(c) ==
    IF \E i \in 1..Len(LowerSeq) : LowerSeq[i] = c
    THEN UpperSeq[CHOOSE i \in 1..Len(LowerSeq) : LowerSeq[i] = c]
    ELSE c

\* str.upper()
upper(s) == [i \in 1..Len(s) |-> upperChar(s[i])]

isupper(c) == \E i \in 1..Len(UpperSeq) : UpperSeq[i] = c

\* a character of the class \w
IsWordChar(c) == IsDigit(c) \/ c = "_" \/ lowerChar(c) # c \/ upperChar(c) # c

\* format_address_lines.py lines 27-44, in the order of the dictionary
DIRECTIONAL_ABBREVIATIONS ==
    LET north == <<"n", "o", "r", "t", "h">>
        south == <<"s", "o", "u", "t", "h">>
        east == <<"e", "a", "s", "t">>
        west == <<"w", "e", "s", "t">>
        sp == <<" ">>
        hy == <<"-">>
        forms(a, b, abbrev) == <<<<a \o b, abbrev>>, <<a \o sp \o b, abbrev>>,
                                 <<a \o hy \o b, abbrev>>>>
    IN  <<<<north, <<"N">>>>, <<south, <<"S">>>>, <<east, <<"E">>>>, <<west, <<"W">>>>>>
        \o forms(north, east, <<"N", "E">>) \o forms(north, west, <<"N", "W">>)
        \o forms(south, east, <<"S", "E">>) \o forms(south, west, <<"S", "W">>)

\* sorted(items, key=lambda x: len(x[0]), reverse=True): longest first, ties
\* in the order of the dictionary
longest_first(items) ==
    LET sorted == sorted_by_key([i \in 1..Len(items) |-> <<0 - Len(items[i][1]), items[i]>>])
    IN  [i \in 1..Len(sorted) |-> sorted[i][2]]

\* format_address_lines.py line 138
sorted_directions == longest_first(DIRECTIONAL_ABBREVIATIONS)

RECURSIVE sub_word(_, _, _, _)
\* re.sub(r'\b' + full_form + r'\b', replace_func, address_str, re.IGNORECASE)
\* from position i on: the abbreviation takes the case of the first letter
sub_word(s, i, full_form, abbrev) ==
    IF i > Len(s) THEN <<>>
    ELSE LET j == i + Len(full_form) - 1
             hit == /\ j <= Len(s)
                    /\ lower(SubSeq(s, i, j)) = full_form
                    /\ (i = 1 \/ ~ IsWordChar(s[i - 1]))
                    /\ (j = Len(s) \/ ~ IsWordChar(s[j + 1]))
         IN  IF hit
             THEN (IF isupper(s[i]) THEN upper(abbrev) ELSE lower(abbrev))
                  \o sub_word(s, j + 1, full_form, abbrev)
             ELSE <<s[i]>> \o sub_word(s, i + 1, full_form, abbrev)

\* re.search(r'\b' + full_form + r'\b', address_lower)
search_word(address_lower, full_form) ==
    \E i \in 1..(Len(address_lower) - Len(full_form) + 1) :
        /\ address_lower[i] = full_form[1]
        /\ SubSeq(address_lower, i, i + Len(full_form) - 1) = full_form
        /\ (i = 1 \/ ~ IsWordChar(address_lower[i - 1]))
        /\ (i + Len(full_form) - 1 = Len(address_lower)
            \/ ~ IsWordChar(address_lower[i + Len(full_form)]))

RECURSIVE sub_words(_, _)
\* the loop over the sorted items: a form is replaced where the text holds it
sub_words(s, items) ==
    IF items = <<>> THEN s
    ELSE sub_words(IF search_word(lower(s), lower(Head(items)[1]))
                   THEN sub_word(s, 1, lower(Head(items)[1]), Head(items)[2])
                   ELSE s,
                   Tail(items))

\* format_address_lines.py lines 119-156
convert_directions_to_abbreviations(address) ==
    IF isna(address) \/ address = <<>> THEN address
    ELSE sub_words(str(address), sorted_directions)

\* format_address_lines.py lines 159-194
convert_street_suffixes_to_abbreviations(address, suffix_map) ==
    IF isna(address) \/ address = <<>> \/ suffix_map = <<>> THEN address
    ELSE sub_words(str(address), longest_first(suffix_map))

\* format_address_lines.py lines 197-219; suffix_map is what
\* load_street_suffix_abbreviations read from the abbreviations workbook
format_address_line1(address, suffix_map) ==
    IF isna(address) \/ address = <<>> THEN address
    ELSE convert_street_suffixes_to_abbreviations(
             convert_directions_to_abbreviations(address), suffix_map)

RECURSIVE split_ids(_, _, _)
\* re.split(r'[,;\s]+', text), the empty pieces dropped (lines 355-356)
split_ids(s, i, cur) ==
    IF i > Len(s)
    THEN IF cur = <<>> THEN <<>> ELSE <<cur>>
    ELSE IF s[i] \in {",", ";", " "}
         THEN (IF cur = <<>> THEN <<>> ELSE <<cur>>) \o split_ids(s, i + 1, <<>>)
         ELSE split_ids(s, i + 1, Append(cur, s[i]))

\* lines 353-357
manual_ids_of(manual_practice_ids) ==
    LET pieces == split_ids(strip(manual_practice_ids), 1, <<>>)
    IN  [i \in 1..Len(pieces) |-> strip_dot_zero(pieces[i])]

\* col.isna().all() or (col.astype(str).str.strip() == '').all(); a column the
\* sheet lacks counts as empty (lines 328-345)
column_empty(d, c) ==
    \/ ~ HasCol(d, c)
    \/ \A r \in 1..NRows(d) : isna(at(d, r, c))
    \/ \A r \in 1..NRows(d) : strip(str(at(d, r, c))) = <<>>

\* line 326
addr1_has_values(d) ==
    /\ \E r \in 1..NRows(d) : notna(at(d, r, C_AL1))
    /\ \E r \in 1..NRows(d) : strip(str(at(d, r, C_AL1))) # <<>>

\* lines 353-365: the one manual id fills the Practice ID column
fill_practice_id(d, manual_practice_ids) ==
    LET manual_ids == manual_ids_of(manual_practice_ids)
        d1 == append_if_missing(d, C_PRACTICE_ID)
    IN  IF column_empty(d, C_PRACTICE_ID) /\ strip(manual_practice_ids) # <<>>
           /\ Len(manual_ids) = 1
        THEN [d1 EXCEPT !.rows = [r \in 1..NRows(d1) |->
                                    [d1.rows[r] EXCEPT ![C_PRACTICE_ID] = manual_ids[1]]]]
        ELSE d

\* lines 367-369
format_column(d, suffix_map) ==
    [d EXCEPT !.rows = [r \in 1..NRows(d) |->
                          [d.rows[r] EXCEPT ![C_AL1] = format_address_line1(@, suffix_map)]]]

\* format_address_lines.py lines 301-481: the sheet the pass leaves on disk.
\* Practice_Locations.xlsx holds the sheet 'Practice' alone at this point
\* (create_locations_input.py line 1238 has just written it), so the read of
\* its sheet 'Locations' at line 373 raises and lines 375-425 fill no cell
format_locations_input_addresses(f, manual_practice_ids, suffix_map) ==
    LET d == read_excel(f)
    IN  IF ~ HasCol(d, C_AL1) THEN f
        ELSE IF ~ addr1_has_values(d)
                \/ ~ \A c \in {C_AL2, C_CITY, C_STATE, C_ZIP} : column_empty(d, c)
        THEN f
        ELSE format_column(fill_practice_id(d, manual_practice_ids), suffix_map)

(***************************************************************************)
(* The texts of the example data: the address of the specification's       *)
(* scenario A, its practice and its location ids.                          *)
(***************************************************************************)
Text ==
    [Broadway |-> <<"1", "6", "5", " ", "B", "r", "o", "a", "d", "w", "a", "y">>,
     Floor23 |-> <<"2", "3", "r", "d", " ", "F", "l", "o", "o", "r">>,
     floor23 |-> <<"2", "3", "r", "d", " ", "f", "l", "o", "o", "r">>,
     BroadwayAndFloor |-> <<"1", "6", "5", " ", "B", "r", "o", "a", "d", "w", "a", "y", ",",
          " ", "2", "3", "r", "d", " ", "f", "l", "o", "o", "r">>,
     BroadwayInOneLine |-> <<"1", "6", "5", " ", "B", "r", "o", "a", "d", "w", "a", "y", " ",
          "2", "3", "r", "d", " ", "F", "l", "o", "o", "r", " ", "N", "e", "w", " ", "Y", "o",
          "r", "k", " ", "N", "Y", " ", "1", "0", "0", "0", "6">>,
     NewYork |-> <<"N", "e", "w", " ", "Y", "o", "r", "k">>,
     NY |-> <<"N", "Y">>,
     NJ |-> <<"N", "J">>,
     NJandNY |-> <<"N", "J", ",", " ", "n", "y">>,
     Zip10006 |-> <<"1", "0", "0", "0", "6">>,
     Zip6405 |-> <<"6", "4", "0", "5">>,
     Blank |-> <<" ">>,
     WestStreet |-> <<"9", " ", "W", "e", "s", "t", " ", "S", "t", "r", "e", "e", "t">>,
     street |-> <<"s", "t", "r", "e", "e", "t">>,
     St |-> <<"S", "t">>,
     Practice555 |-> <<"5", "5", "5">>,
     Practice777 |-> <<"7", "7", "7">>,
     CloudP1 |-> <<"p", "_", "1">>,
     CloudP7 |-> <<"p", "_", "7">>,
     Loc1 |-> <<"l", "o", "c", "_", "1">>,
     Loc2 |-> <<"l", "o", "c", "_", "2">>,
     Loc5 |-> <<"l", "o", "c", "_", "5">>,
     Loc6 |-> <<"l", "o", "c", "_", "6">>,
     Loc7 |-> <<"l", "o", "c", "_", "7">>,
     VirtNY |-> <<"v", "i", "r", "t", "_", "n", "y">>,
     VirtNY7 |-> <<"v", "i", "r", "t", "_", "n", "y", "_", "7">>,
     Id101 |-> <<"1", "0", "1">>,
     Id102 |-> <<"1", "0", "2">>,
     Id103 |-> <<"1", "0", "3">>,
     Id104 |-> <<"1", "0", "4">>,
     Id102f |-> <<"1", "0", "2", ".", "0">>,
     Id106 |-> <<"1", "0", "6">>,
     Id99 |-> <<"9", "9">>,
     InPerson |-> <<"I", "n", " ", "P", "e", "r", "s", "o", "n">>,
     Both |-> <<"B", "o", "t", "h">>,
     Virtual |-> <<"V", "i", "r", "t", "u", "a", "l">>,
     Npi |-> <<"1", "2", "3", "4", "5", "6", "7", "8", "9", "0">>]

(***************************************************************************)
(* The catalog rows the runs draw from, in catalog order: the location of  *)
(* scenario A, the same street address without a unit, the virtual         *)
(* locations of two practices in one state, a location of the other        *)
(* practice and a location of which only the street line is known.         *)
(***************************************************************************)
Location(location_id, monolith, a1, a2, city, state, zip, ltype, pmid, pcid) ==
    [location_id |-> location_id, monolith_location_id |-> monolith,
     address_1 |-> a1, address_2 |-> a2, city |-> city, state |-> state, zip |-> zip,
     location_type |-> ltype, practice_monolith_id |-> pmid, practice_cloud_id |-> pcid]

CatalogPool ==
    <<Location(Text.Loc1, Text.Id101, Text.Broadway, Text.Floor23, Text.NewYork, Text.NY,
               Text.Zip10006, Text.InPerson, Text.Practice555, Text.CloudP1),
      Location(Text.Loc2, Text.Id102, Text.Broadway, NaN, Text.NewYork, Text.NY,
               Text.Zip10006, Text.InPerson, Text.Practice555, Text.CloudP1),
      Location(Text.VirtNY7, Text.Id103, VirtualAddress, NaN, NaN, Text.NY,
               NaN, Text.Virtual, Text.Practice777, Text.CloudP7),
      Location(Text.VirtNY, Text.Id104, VirtualAddress, NaN, NaN, Text.NY,
               NaN, Text.Virtual, Text.Practice555, Text.CloudP1),
      Location(Text.Loc5, Text.Id102f, Text.Broadway, NaN, Text.NewYork, Text.NJ,
               Text.Zip6405, Text.InPerson, Text.Practice777, Text.CloudP7),
      Location(Text.Loc6, Text.Id106, Text.Broadway, NaN, NaN, NaN,
               NaN, Text.InPerson, Text.Practice555, Text.CloudP1),
      Location(Text.Loc7, NaN, Text.Broadway, Text.Floor23, Text.NewYork, NaN,
               Text.Zip10006, Text.InPerson, Text.Practice555, Text.CloudP1)>>

\* the largest number of catalog rows of a run
MaxCatalog == 2

RECURSIVE SubSeqs(_, _)
\* the sub-sequences of seq of at most n elements, the order kept
SubSeqs(seq, n) ==
    IF seq = <<>> \/ n = 0 THEN {<<>>}
    ELSE SubSeqs(Tail(seq), n)
         \cup {<<Head(seq)>> \o t : t \in SubSeqs(Tail(seq), n - 1)}

Catalogs == SubSeqs(CatalogPool, MaxCatalog) \ {<<>>}

(***************************************************************************)
(* The rows of Locations_input.xlsx the runs draw from.  A row gives the   *)
(* five address cells, the practice id, the classification and the two     *)
(* Location ID cells of the sheets that have numbered Location ID columns. *)
(***************************************************************************)
InputRow(a1, a2, city, state, zip, pid, ltype, id1, id2) ==
    [a1 |-> a1, a2 |-> a2, city |-> city, state |-> state, zip |-> zip,
     pid |-> pid, ltype |-> ltype, id1 |-> id1, id2 |-> id2]

\* the row with a cell in 'Practice Cloud ID'
WithCloudId(row, pcid) == row @@ [pcid |-> pcid]

EmptyRow == InputRow(Emp, Emp, Emp, Emp, Emp, Emp, Emp, Emp, Emp)

\* sheets without mapped location ids (one empty column 'Location ID')
UnmappedRows ==
    {InputRow(Text.BroadwayAndFloor, Emp, Emp, Emp, Emp, Text.Practice555, Text.InPerson, Emp, Emp),
     InputRow(Text.BroadwayInOneLine, Emp, Emp, Emp, Emp, Text.Practice555, Text.Both, Emp, Emp),
     InputRow(Text.Broadway, Emp, Emp, Emp, Emp, Text.Practice555, Text.InPerson, Emp, Emp),
     InputRow(Text.Broadway, Emp, Text.NewYork, Text.NY, Text.Zip10006, Text.Practice555, Text.Both, Emp, Emp),
     InputRow(Text.Broadway, Text.floor23, Text.NewYork, Text.NY, Text.Zip10006, Text.Practice555, Text.InPerson, Emp, Emp),
     InputRow(Emp, Emp, Emp, Text.NY, Emp, Text.Practice555, Text.Both, Emp, Emp),
     InputRow(Emp, Emp, Text.Blank, Text.NY, Emp, Emp, Text.InPerson, Emp, Emp),
     InputRow(Emp, Emp, Emp, Text.NJandNY, Emp, Text.Practice555, Text.Both, Emp, Emp),
     InputRow(Text.WestStreet, Emp, Emp, Emp, Emp, Emp, Text.InPerson, Emp, Emp),
     InputRow(Text.Broadway, Emp, Text.NewYork, Text.NY, Text.Zip10006, Emp, Text.Both, Emp, Emp),
     WithCloudId(InputRow(Text.Broadway, Emp, Text.NewYork, Text.NY, Text.Zip10006, Emp, Text.Both, Emp, Emp),
                 Text.CloudP7),
     WithCloudId(InputRow(Text.Broadway, Emp, Text.NewYork, Emp, Emp, Text.Practice555, Text.Both, Emp, Emp),
                 Text.CloudP7),
     EmptyRow}

\* sheets with the columns 'Location ID 1' and 'Location ID 2'
MappedRows ==
    {InputRow(Emp, Emp, Emp, Emp, Emp, Text.Practice555, Emp, Text.Id101, Emp),
     InputRow(Emp, Emp, Emp, Emp, Emp, Text.Practice555, Emp, Text.Id99, Text.Id102),
     InputRow(Emp, Emp, Emp, Emp, Emp, Text.Practice555, Emp, Text.Id101, Text.Id101),
     InputRow(Emp, Emp, Emp, Text.NY, Emp, Text.Practice555, Text.Both, Text.Id101, Emp),
     InputRow(Emp, Emp, Emp, Text.NJ, Emp, Text.Practice555, Emp, Text.Id102f, Emp),
     InputRow(Text.Broadway, Emp, Text.NewYork, Text.NY, Text.Zip10006, Text.Practice555, Text.Both, Emp, Emp),
     EmptyRow}

\* the largest number of rows drawn from the pools
MaxRows == 2

\* the number of empty rows a sheet may end with
PadRows == 4

RECURSIVE Repeat(_, _)
Repeat(x, n) == IF n = 0 THEN <<>> ELSE <<x>> \o Repeat(x, n - 1)

SeqsUpTo(S, n) == UNION {[1..k -> S] : k \in 1..n}

\* the sheet create_locations_input_excel writes (lines 621-700): the columns
\* in the order of LOCATION_TYPES, 'Location Type' behind them; the columns
\* no step of the matching reads or writes are left out, but for NPI Number
Sheet(rows, numbered) ==
    LET id_cols == IF numbered THEN <<ColN("Location ID", 1), ColN("Location ID", 2)>>
                   ELSE <<Col("Location ID")>>
        cell(row, c) ==
            CASE c = C_AL1 -> row.a1
              [] c = C_AL2 -> row.a2
              [] c = C_CITY -> row.city
              [] c = C_STATE -> row.state
              [] c = C_ZIP -> row.zip
              [] c = C_PRACTICE_ID -> row.pid
              [] c = C_PRACTICE_CLOUD_ID -> IF "pcid" \in DOMAIN row THEN row.pcid ELSE Emp
              [] c = C_LOCATION_TYPE -> row.ltype
              [] c = ColN("Location ID", 1) -> row.id1
              [] c = ColN("Location ID", 2) -> row.id2
              [] c = Col("NPI Number") -> Text.Npi
              [] OTHER -> Emp
        cols == <<C_AL1, C_AL2, C_CITY, C_STATE, C_ZIP, C_PRACTICE_ID, C_PRACTICE_CLOUD_ID>>
                \o id_cols \o <<C_LOCATION_TYPE, Col("NPI Number")>>
    IN  [cols |-> cols,
         rows |-> [r \in 1..Len(rows) |->
                     [c \in {cols[i] : i \in 1..Len(cols)} |-> cell(rows[r], c)]]]

Sheets ==
    {Sheet(rows \o Repeat(EmptyRow, pad), FALSE) :
        rows \in SeqsUpTo(UnmappedRows, MaxRows), pad \in {0, PadRows}}
    \cup {Sheet(rows \o Repeat(EmptyRow, pad), TRUE) :
            rows \in SeqsUpTo(MappedRows, MaxRows), pad \in {0, PadRows}}

(***************************************************************************)
(* One run of add_location_cloud_ids_to_locations_input (lines 1933-3111). *)
(*                                                                         *)
(*   api    the Locations sheet of Practice_Locations.xlsx                 *)
(*   file   the Locations sheet of Locations_input.xlsx on disk            *)
(*   supplied  that sheet as create_locations_input_excel wrote it         *)
(*   fetched   the outcome of the requests of fetch_and_write_locations    *)
(*   df     locations_df, the frame in memory                              *)
(*   pc     the place the run has reached                                  *)
(*   location_id_cols, needs_fuzzy_matching, only_state_mapped             *)
(*          the locals of the same names                                   *)
(*   strategy  the case chosen from the frame as read (0 before that)      *)
(*   executed  the matchers that have run, in order                        *)
(*   found     for every row, the catalog rows the address or State        *)
(*             matcher returned for it, in the order of discovery          *)
(*   str1, str2, score  the arguments and the results of a call of         *)
(*             fuzzy_match_score, one result for every threshold           *)
(*   norm      the results of the normalizers on str1                      *)
(*   location_type  the result of determine_location_type on str1          *)
(***************************************************************************)
VARIABLES api, supplied, fetched, file, df, pc, location_id_cols, needs_fuzzy_matching, only_state_mapped,
          strategy, executed, found, str1, str2, score, norm, location_type

vars == <<api, supplied, fetched, file, df, pc, location_id_cols, needs_fuzzy_matching, only_state_mapped,
          strategy, executed, found, str1, str2, score, norm, location_type>>

run_vars == <<api, supplied, fetched, file, df, pc, location_id_cols, needs_fuzzy_matching, only_state_mapped,
              strategy, executed, found>>

sim_vars == <<str1, str2, score, norm, location_type>>

NoFrame == [cols |-> <<>>, rows |-> <<>>]

NoScore == <<>>

NoNorm == <<>>

NoType == <<"none">>

RunIdle ==
    /\ api = <<>> /\ supplied = NoFrame /\ fetched = "" /\ file = NoFrame /\ df = NoFrame /\ pc = "idle"
    /\ location_id_cols = <<>> /\ needs_fuzzy_matching = TRUE /\ only_state_mapped = FALSE
    /\ strategy = 0 /\ executed = <<>> /\ found = <<>>

\* Locations_input.xlsx and Practice_Locations.xlsx are written; nothing is read
Init ==
    /\ api \in Catalogs
    /\ file \in Sheets
    /\ supplied = file
    /\ fetched = ""
    /\ df = NoFrame
    /\ pc = "start"
    /\ location_id_cols = <<>>
    /\ needs_fuzzy_matching = TRUE
    /\ only_state_mapped = FALSE
    /\ strategy = 0
    /\ executed = <<>>
    /\ found = <<>>
    /\ str1 = Emp /\ str2 = Emp /\ score = NoScore /\ norm = NoNorm /\ location_type = NoType

\* the manual practice ids a run is started with
ManualPracticeIds == {Emp, Text.Practice555}

\* the contents of the abbreviations workbook; the empty map when it is absent
SuffixMaps == {<<>>, <<<<Text.street, Text.St>>>>}

\* create_locations_input.py lines 839-854: format_locations_input_addresses
FormatAddresses ==
    /\ pc = "start"
    /\ \E manual_practice_ids \in ManualPracticeIds : \E suffix_map \in SuffixMaps :
           file' = format_locations_input_addresses(file, manual_practice_ids, suffix_map)
    /\ pc' = "formatted"
    /\ UNCHANGED <<api, supplied, fetched, df, location_id_cols, needs_fuzzy_matching, only_state_mapped,
                   strategy, executed, found>>
    /\ UNCHANGED sim_vars

\* the outcomes of the two requests: both answer, the location request fails,
\* both fail
FetchOutcomes == {"ok", "provider_error", "unreachable"}

\* fetch_practice_locations.py lines 289-292: the row of a practice for which
\* no location came back
no_locations_row(monolith_id, cloud_id) ==
    Location(NaN, NaN, NaN, NaN, NaN, NaN, NaN, NaN, monolith_id, cloud_id)

\* fetch_practice_locations.py lines 145-300: the Locations sheet written for
\* the practice of the Practice sheet.  A failed location request gives no
\* locations (lines 95-105); a failed conversion gives the empty map (lines
\* 68-74), and the practice id is then taken for a cloud id (lines 224-230).
fetch_and_write_locations(locations, outcome) ==
    CASE outcome = "ok" -> locations
      [] outcome = "provider_error" -> <<no_locations_row(Text.Practice555, Text.CloudP1)>>
      [] outcome = "unreachable" -> <<no_locations_row(NaN, Text.Practice555)>>

\* lines 856-880: the locations are fetched; no failure of a request reaches
\* this caller, and an exception would end in a printed warning
FetchLocations ==
    /\ pc = "formatted"
    /\ \E outcome \in FetchOutcomes :
           /\ fetched' = outcome
           /\ api' = fetch_and_write_locations(api, outcome)
    /\ pc' = "fetched"
    /\ UNCHANGED <<supplied, file, df, location_id_cols, needs_fuzzy_matching, only_state_mapped,
                   strategy, executed, found>>
    /\ UNCHANGED sim_vars

\* lines 1977-2055: the sheet is read and the flags are computed
ReadAndSelect ==
    /\ pc = "fetched"
    /\ location_id_columns(read_excel(file)) # <<>>
    /\ df' = read_excel(file)
    /\ location_id_cols' = location_id_columns(df')
    /\ needs_fuzzy_matching' = needs_fuzzy_matching_of(df')
    /\ only_state_mapped' = only_state_mapped_of(df')
    /\ strategy' = selected_case(df')
    /\ pc' = "selected"
    /\ UNCHANGED <<api, supplied, fetched, file, executed, found>>
    /\ UNCHANGED sim_vars

\* lines 2057-2275: Case 2; the sheet is saved and needs_fuzzy_matching is cleared
StateOnlyMatch ==
    /\ pc = "selected"
    /\ only_state_mapped
    /\ df' = state_only_matching(df, api)
    /\ file' = df'
    /\ found' = [r \in 1..NRows(df) |-> matches_for_row(df, r, api)]
    /\ needs_fuzzy_matching' = FALSE
    /\ executed' = Append(executed, "state_only")
    /\ pc' = "state_matched"
    /\ UNCHANGED <<api, supplied, fetched, location_id_cols, only_state_mapped, strategy>>
    /\ UNCHANGED sim_vars

\* the test of line 2277 is reached past Case 2 or around it
AtBranch == pc = "state_matched" \/ (pc = "selected" /\ ~ only_state_mapped)

\* lines 2277-2412: Cases 3 and 4
FuzzyMatch ==
    /\ AtBranch
    /\ needs_fuzzy_matching
    /\ HasCol(df, C_AL1)
    /\ df' = fuzzy_matching(df, api)
    /\ found' = all_matches(drop_unnumbered_id_columns(df), api)
    /\ executed' = Append(executed, "fuzzy")
    /\ pc' = "matched"
    /\ UNCHANGED <<api, supplied, fetched, file, location_id_cols, needs_fuzzy_matching, only_state_mapped,
                   strategy>>
    /\ UNCHANGED sim_vars

\* lines 2414-2568: Case 1, the branch taken when needs_fuzzy_matching is false
DirectMap ==
    /\ AtBranch
    /\ ~ needs_fuzzy_matching
    /\ df' = direct_mapping(df, api, location_id_cols)
    /\ executed' = Append(executed, "direct")
    /\ pc' = "matched"
    /\ UNCHANGED <<api, supplied, fetched, file, location_id_cols, needs_fuzzy_matching, only_state_mapped,
                   strategy, found>>
    /\ UNCHANGED sim_vars

\* lines 2570-2877: the columns are ordered, twice, and the sheet is saved
ReorderAndSave ==
    /\ pc = "matched"
    /\ df' = reorder(reorder(df))
    /\ file' = df'
    /\ pc' = "saved"
    /\ UNCHANGED <<api, supplied, fetched, location_id_cols, needs_fuzzy_matching, only_state_mapped,
                   strategy, executed, found>>
    /\ UNCHANGED sim_vars

\* the pass run on the frame in memory, without the read of line 2883
ContinueInMemory ==
    /\ pc = "saved"
    /\ pc' = "reloaded"
    /\ UNCHANGED <<api, supplied, fetched, file, df, location_id_cols, needs_fuzzy_matching, only_state_mapped,
                   strategy, executed, found>>
    /\ UNCHANGED sim_vars

\* line 2883: the saved sheet is read again
Reload ==
    /\ pc = "saved"
    /\ df' = read_excel(file)
    /\ pc' = "reloaded"
    /\ UNCHANGED <<api, supplied, fetched, file, location_id_cols, needs_fuzzy_matching, only_state_mapped,
                   strategy, executed, found>>
    /\ UNCHANGED sim_vars

\* line 2884: the virtual locations are added to the frame
Backfill ==
    /\ pc = "reloaded"
    /\ df' = add_virtual_locations_after_matching(df, api)
    /\ pc' = "backfilled"
    /\ UNCHANGED <<api, supplied, fetched, file, location_id_cols, needs_fuzzy_matching, only_state_mapped,
                   strategy, executed, found>>
    /\ UNCHANGED sim_vars

\* lines 2886-3103: the columns are ordered and the sheet is saved
FinalReorderAndSave ==
    /\ pc = "backfilled"
    /\ df' = reorder(df)
    /\ file' = df'
    /\ pc' = "done"
    /\ UNCHANGED <<api, supplied, fetched, location_id_cols, needs_fuzzy_matching, only_state_mapped,
                   strategy, executed, found>>
    /\ UNCHANGED sim_vars

Next ==
    \/ FormatAddresses
    \/ FetchLocations
    \/ ReadAndSelect
    \/ StateOnlyMatch
    \/ FuzzyMatch
    \/ DirectMap
    \/ ReorderAndSave
    \/ Reload
    \/ Backfill
    \/ FinalReorderAndSave

Spec == Init /\ [][Next]_vars

(***************************************************************************)
(* Calls of fuzzy_match_score on short texts.                              *)
(***************************************************************************)
\* the longest first and second argument
MaxLen1 == 3

MaxLen2 == 2

SimAlphabet == {"a", "B", "1", " ", ","}

\* the thresholds a call is made with: none, those of the matchers, exact
Thresholds == {0, StreetThreshold, FieldThreshold, 100}

SimTexts(n) == {NaN} \cup UNION {[1..k -> SimAlphabet] : k \in 0..n}

InitSim ==
    /\ str1 \in SimTexts(MaxLen1)
    /\ str2 \in SimTexts(MaxLen2)
    /\ score = NoScore
    /\ norm = NoNorm
    /\ location_type = NoType
    /\ RunIdle

\* fuzzy_match_score(str1, str2, threshold) for every threshold
Score ==
    /\ score = NoScore
    /\ score' = [t \in Thresholds |-> fuzzy_match_score(str1, str2, t)]
    /\ UNCHANGED <<str1, str2, norm, location_type>>
    /\ UNCHANGED run_vars

NextSim == Score

SpecSim == InitSim /\ [][NextSim]_vars

(***************************************************************************)
(* Calls of the normalizers on short texts.                                *)
(***************************************************************************)
\* the longest text normalized
MaxLenNorm == 5

InitNorm ==
    /\ str1 \in SimTexts(MaxLenNorm)
    /\ str2 = Emp
    /\ score = NoScore
    /\ norm = NoNorm
    /\ location_type = NoType
    /\ RunIdle

\* normalize_string(str1) and normalize_string_for_matching(str1)
Normalize ==
    /\ norm = NoNorm
    /\ norm' = [normalize_string |-> normalize_string(str1),
                normalize_string_for_matching |-> normalize_string_for_matching(str1)]
    /\ UNCHANGED <<str1, str2, score, location_type>>
    /\ UNCHANGED run_vars

NextNorm == Normalize

SpecNorm == InitNorm /\ [][NextNorm]_vars

(***************************************************************************)
(* determine_location_type: 'Both', 'Virtual' or 'In Person' from the raw  *)
(* Location Type text.                                                     *)
(***************************************************************************)
\* Python's 'sub in s' for strings
is_in(sub, s) == \E i \in 0..(Len(s) - Len(sub)) : SubSeq(s, i + 1, i + Len(sub)) = sub

\* lines 148 and 152; the list of the exact test of line 110 is the same
in_person_keywords_for_both ==
    <<<<"i", "n", " ", "p", "e", "r", "s", "o", "n">>,
      <<"i", "n", " ", "o", "f", "f", "i", "c", "e">>,
      <<"i", "n", "p", "e", "r", "s", "o", "n">>,
      <<"i", "n", "o", "f", "f", "i", "c", "e">>>>

\* lines 116 and 149
virtual_keywords ==
    <<<<"v", "v">>,
      <<"v", "i", "r", "t", "u", "a", "l">>,
      <<"t", "e", "l", "e", "h", "e", "a", "l", "t", "h">>,
      <<"v", "i", "d", "e", "o">>,
      <<"o", "n", "l", "i", "n", "e">>>>

\* line 122
virtual_patterns ==
    <<<<"v", "v">>,
      <<"v", "i", "r", "t", "u", "a", "l", " ", "v", "i", "s", "i", "t">>,
      <<"v", "i", "r", "t", "u", "a", "l">>,
      <<"t", "e", "l", "e", "h", "e", "a", "l", "t", "h">>,
      <<"v", "i", "d", "e", "o", " ", "v", "i", "s", "i", "t">>,
      <<"v", "i", "d", "e", "o">>,
      <<"o", "n", "l", "i", "n", "e">>>>

\* line 160
both_patterns ==
    <<<<"i", "n", " ", "p", "e", "r", "s", "o", "n", "/", "v", "v">>,
      <<"i", "n", " ", "o", "f", "f", "i", "c", "e", " ", "a", "n", "d", " ", "v", "i", "d", "e", "o">>,
      <<"b", "o", "t", "h">>,
      <<"i", "n", " ", "p", "e", "r", "s", "o", "n", " ", "a", "n", "d", " ", "v", "i", "r", "t", "u", "a", "l">>,
      <<"i", "n", " ", "o", "f", "f", "i", "c", "e", " ", "a", "n", "d", " ", "v", "i", "r", "t", "u", "a", "l">>>>

has_in_person_phrase(normalized_input) ==
    \E k \in DOMAIN in_person_keywords_for_both : is_in(in_person_keywords_for_both[k], normalized_input)

has_virtual_keyword(normalized_input) ==
    \E k \in DOMAIN virtual_keywords : is_in(virtual_keywords[k], normalized_input)

\* one round of the loop over virtual_patterns (lines 126-142)
virtual_pattern_matches(normalized_input, pattern) ==
    LET pattern_norm == normalize_string_for_matching(pattern)
    IN  \/ pattern_norm = normalized_input
        \/ is_in(pattern_norm, normalized_input)
        \/ is_in(normalized_input, pattern_norm)
        \/ fuzzy_match_score(normalized_input, pattern_norm, StreetThreshold)

\* one round of the loop over both_patterns (lines 161-170)
both_pattern_matches(normalized_input, pattern) ==
    LET pattern_norm == normalize_string_for_matching(pattern)
    IN  \/ is_in(pattern_norm, normalized_input)
        \/ is_in(normalized_input, pattern_norm)
        \/ /\ pattern_norm # in_person_keywords_for_both[1]
           /\ fuzzy_match_score(normalized_input, pattern_norm, StreetThreshold)

\* lines 89-179; the fallback loop of lines 172-176 and the default of line
\* 179 both return 'In Person'
determine_location_type(location_type_raw_value) ==
    IF isna(location_type_raw_value) \/ location_type_raw_value = Emp THEN Text.InPerson
    ELSE LET normalized_input == normalize_string_for_matching(strip(str(location_type_raw_value)))
         IN  IF \E k \in DOMAIN in_person_keywords_for_both : normalized_input = in_person_keywords_for_both[k]
             THEN Text.InPerson
             ELSE IF /\ \/ is_in(in_person_keywords_for_both[1], normalized_input)
                        \/ is_in(in_person_keywords_for_both[2], normalized_input)
                     /\ ~ has_virtual_keyword(normalized_input)
             THEN Text.InPerson
             ELSE IF \E k \in DOMAIN virtual_patterns : virtual_pattern_matches(normalized_input, virtual_patterns[k])
             THEN Text.Virtual
             ELSE IF has_in_person_phrase(normalized_input) /\ has_virtual_keyword(normalized_input)
             THEN Text.Both
             ELSE IF \E k \in DOMAIN both_patterns : both_pattern_matches(normalized_input, both_patterns[k])
             THEN Text.Both
             ELSE Text.InPerson

(***************************************************************************)
(* Calls of determine_location_type on raw Location Type texts.            *)
(***************************************************************************)
\* the phrases a raw value is made of
RawPhrases ==
    {<<"I", "n", " ", "P", "e", "r", "s", "o", "n">>,
      <<"i", "n", " ", "o", "f", "f", "i", "c", "e">>,
      <<"i", "n", "p", "e", "r", "s", "o", "n">>,
      <<"I", "n", "O", "f", "f", "i", "c", "e">>,
      <<"V", "V">>,
      <<"V", "i", "r", "t", "u", "a", "l">>,
      <<"T", "e", "l", "e", "h", "e", "a", "l", "t", "h">>,
      <<"v", "i", "d", "e", "o">>,
      <<"o", "n", "l", "i", "n", "e">>,
      <<"B", "o", "t", "h">>,
      <<"v", "i", "s", "i", "t">>,
      <<"o", "f", "f", "i", "c", "e">>,
      <<"v">>,
      <<"x">>}

\* what stands between two phrases
RawJoiners ==
    {<<>>,
      <<" ">>,
      <<"/">>,
      <<" ", "a", "n", "d", " ">>}

\* the most phrases in a raw value
MaxPhrases == 2

RECURSIVE RawTypes(_)
RawTypes(n) ==
    IF n = 0 THEN {NaN, Emp, <<" ">>}
    ELSE IF n = 1 THEN RawTypes(0) \cup RawPhrases
    ELSE RawTypes(n - 1) \cup {v \o j \o p : v \in RawTypes(n - 1) \ RawTypes(0), j \in RawJoiners, p \in RawPhrases}

InitType ==
    /\ str1 \in RawTypes(MaxPhrases)
    /\ str2 = Emp
    /\ score = NoScore
    /\ norm = NoNorm
    /\ location_type = NoType
    /\ RunIdle

\* determine_location_type(str1)
Classify ==
    /\ location_type = NoType
    /\ location_type' = determine_location_type(str1)
    /\ UNCHANGED <<str1, str2, score, norm>>
    /\ UNCHANGED run_vars

NextType == Classify

SpecType == InitType /\ [][NextType]_vars

Scored == score # NoScore

\* both texts hold digit runs and the two sequences of runs differ
NumbersDiffer ==
    /\ extract_numbers(str1) # <<>>
    /\ extract_numbers(str2) # <<>>
    /\ extract_numbers(str1) # extract_numbers(str2)

\* C1: when both texts hold digit runs and the sequences of runs differ, the
\* score is false for every threshold, threshold 0 included
NumericInvariant ==
    (Scored /\ NumbersDiffer) => \A t \in Thresholds : score[t] = FALSE

\* a scored pair whose digit runs differ and whose letters are the same
NumericInvariantWitness ==
    /\ Scored
    /\ NumbersDiffer
    /\ remove_digits(normalize_string(str1)) = remove_digits(normalize_string(str2))
    /\ remove_digits(normalize_string(str1)) # <<>>
    /\ score[0] = FALSE

(***************************************************************************)
(* Properties of a run.                                                    *)
(***************************************************************************)
\* the sheet on disk as pandas reads it: until the first save it is the
\* input of the run, at the end it is the output
OnDisk == read_excel(file)

\* the address matcher has run and nothing has been saved since the start
AddressMatched == pc = "matched" /\ executed = <<"fuzzy">>

\* the catalog rows of the practice of row r of the input
Scoped(r) ==
    practice_filter(api, valid_or_none(practice_id_of_row(OnDisk, r)),
                    valid_or_none(practice_cloud_id_of_row(OnDisk, r)))

\* C2: in a Case 3 dataset every catalog row matched to a row has no line 2
\* when the row has none, and a line 2 similar at 0.7 when the row has one
Line2Policy ==
    (AddressMatched /\ strategy = 3) =>
        \A r \in DOMAIN found : \A k \in DOMAIN found[r] :
            LET row2 == normalize_string(at(OnDisk, r, C_AL2))
                rec2 == normalize_string(api[found[r][k]].address_2)
            IN  IF row2 = Emp THEN rec2 = Emp
                ELSE rec2 # Emp /\ fuzzy_match_score(row2, rec2, StreetThreshold)

\* the space-join of the address fields of a catalog row that hold text
JoinedAddress(rec) ==
    join(<<" ">>, SelectSeq(<<rec.address_1, rec.address_2, rec.city, rec.state, rec.zip>>,
                            nonblank))

\* C3: in a Case 4 dataset the matches of a row are the catalog rows of its
\* practice whose joined address is similar at 0.7 to its line 1, and the row
\* '165 Broadway, 23rd floor' matches the one catalog row of scenario A
OneLineMatches ==
    (AddressMatched /\ strategy = 4) =>
        \A r \in DOMAIN found :
            /\ found[r] = SelectSeq(Scoped(r),
                             LAMBDA i : fuzzy_match_score(at(OnDisk, r, C_AL1),
                                                          JoinedAddress(api[i]),
                                                          StreetThreshold))
            /\ (at(OnDisk, r, C_AL1) = Text.BroadwayAndFloor /\ api = <<CatalogPool[1]>>)
                   => (Len(found[r]) = 1 /\ api[found[r][1]].location_id = Text.Loc1)

\* the slots of a frame and those a row fills
Slots(d) == {c[2] : c \in {x \in ColSet(d) : x[1] = "Location Cloud ID" /\ x[2] > 0}}

Populated(d, r) == {n \in Slots(d) : nonblank(at(d, r, ColN("Location Cloud ID", n)))}

SlotIds(d, r) ==
    {strip_dot_zero(strip(str(at(d, r, ColN("Location Cloud ID", n))))) : n \in Populated(d, r)}

\* the row is classified 'Both' or 'Virtual' and names a state
VirtualRow(d, r) ==
    /\ at(d, r, C_LOCATION_TYPE) \in {Text.Both, Text.Virtual}
    /\ nonblank(at(d, r, C_STATE))

\* the catalog rows with address_1 '--' in the state of row r, in catalog order
Sentinels(d, r) ==
    SelectSeq(Indices(api),
        LAMBDA i : /\ api[i].address_1 = VirtualAddress
                   /\ normalize_string(api[i].state) = normalize_string(at(d, r, C_STATE)))

\* the id of catalog row i stands in the slot after the last one the row filled
Appended(before, after, r, i) ==
    at(after, r, ColN("Location Cloud ID", SetMax({0} \cup Populated(before, r)) + 1))
        = strip_dot_zero(strip(str(api[i].location_id)))

\* C4 as stated: every virtual location of the row's state that the row does not
\* hold yet is in the slot after the row's last one when the pass is over
EverySentinelAppended ==
    pc = "backfilled" =>
        \A r \in 1..NRows(OnDisk) : \A k \in DOMAIN Sentinels(OnDisk, r) :
            LET i == Sentinels(OnDisk, r)[k]
            IN  (/\ VirtualRow(OnDisk, r)
                 /\ notna(api[i].location_id)
                 /\ strip_dot_zero(strip(str(api[i].location_id))) \notin SlotIds(OnDisk, r))
                => Appended(OnDisk, df, r, i)

\* C4: the first virtual location of the row's state in catalog order, when it
\* has a location id the row does not hold yet, is in the slot after the row's
\* last one when the pass is over
FirstSentinelAppended ==
    pc = "backfilled" =>
        \A r \in 1..NRows(OnDisk) :
            LET i == Sentinels(OnDisk, r)[1]
            IN  (/\ VirtualRow(OnDisk, r)
                 /\ Sentinels(OnDisk, r) # <<>>
                 /\ notna(api[i].location_id)
                 /\ strip_dot_zero(strip(str(api[i].location_id))) \notin SlotIds(OnDisk, r))
                => Appended(OnDisk, df, r, i)

\* a row with a match in slot 1 has received the virtual location in slot 2
FirstSentinelAppendedWitness ==
    /\ pc = "backfilled"
    /\ \E r \in 1..NRows(OnDisk) :
          /\ VirtualRow(OnDisk, r)
          /\ Sentinels(OnDisk, r) # <<>>
          /\ Populated(OnDisk, r) = {1}
          /\ Populated(df, r) = {1, 2}
          /\ Appended(OnDisk, df, r, Sentinels(OnDisk, r)[1])

\* C5: a second pass over the saved output of the run changes nothing
BackfillIdempotent ==
    pc = "done" => add_virtual_locations_after_matching(OnDisk, api) = OnDisk

\* the output holds a virtual location the pass of the run has added
BackfillIdempotentWitness ==
    /\ pc = "done"
    /\ \E r \in 1..NRows(OnDisk) :
          /\ VirtualRow(OnDisk, r)
          /\ Sentinels(OnDisk, r) # <<>>
          /\ strip_dot_zero(strip(str(api[Sentinels(OnDisk, r)[1]].location_id)))
                 \in SlotIds(OnDisk, r)
          /\ Cardinality(Populated(OnDisk, r)) >= 2

\* C6: in the output the slots a row fills are 1..k for some k
SlotsContiguous ==
    pc = "done" =>
        \A r \in 1..NRows(OnDisk) :
            Populated(OnDisk, r) = 1..Cardinality(Populated(OnDisk, r))

\* C7: in the output every Location Type n of a row the State matcher found a
\* match for is empty
StateMatchTypesBlank ==
    (pc = "done" /\ \E k \in DOMAIN executed : executed[k] = "state_only") =>
        \A r \in DOMAIN found :
            found[r] # <<>> =>
                \A c \in ColSet(OnDisk) :
                    (c[1] = "Location Type" /\ c[2] > 0) => ~ nonblank(at(OnDisk, r, c))

\* C8: one matcher runs in a run, and the direct mapping does not run when
\* Case 2 was chosen
OneMatcherRuns ==
    pc = "done" =>
        /\ Len(executed) = 1
        /\ strategy = 2 => \A k \in DOMAIN executed : executed[k] # "direct"

\* the matches the multi-field cascade gives row r of the input
CascadeMatches(r) ==
    SelectSeq(multi_field_matches(normalized_row(OnDisk, r), api, Scoped(r)),
              LAMBDA i : notna(api[i].monolith_location_id) /\ notna(api[i].location_id))

\* C9: in a Case 3 dataset every row is matched by the multi-field cascade,
\* a row that fills line 1 only included
CascadeForEveryRow ==
    (AddressMatched /\ strategy = 3) =>
        \A r \in DOMAIN found : found[r] = CascadeMatches(r)

\* some row of the frame holds text in column c
SomeRowFills(d, c) == \E r \in 1..NRows(d) : nonblank(at(d, r, c))

\* the case by the cascade of C10
CaseOfCascade(d) ==
    IF \E c \in ColSet(d) :
           c[1] = "Location ID" /\ 100 * non_empty_count(d, c) > MostlyEmptyPct * NRows(d)
    THEN 1
    ELSE IF /\ SomeRowFills(d, C_STATE)
            /\ \A c \in {C_AL1, C_AL2, C_CITY, C_ZIP} : ~ SomeRowFills(d, c)
    THEN 2
    ELSE IF /\ SomeRowFills(d, C_AL1)
            /\ \A c \in {C_AL2, C_CITY, C_STATE, C_ZIP} : ~ SomeRowFills(d, c)
    THEN 4
    ELSE 3

\* C10: the case chosen is Case 1 when a Location ID column is filled in more
\* than 20% of the rows, else Case 2 when only State holds text, else Case 4
\* when only Address Line 1 holds text, else Case 3
SelectionCascade ==
    pc = "selected" => strategy = CaseOfCascade(df)

\* of the identifying fields of the frame only Location ID columns hold text
OnlyIdsFilled(d) ==
    /\ \E c \in ColSet(d) : c[1] = "Location ID" /\ SomeRowFills(d, c)
    /\ \A c \in {C_AL1, C_AL2, C_CITY, C_STATE, C_ZIP} : ~ SomeRowFills(d, c)

\* some Location ID column is filled in more than 20% of the rows
IdsMaterial(d) ==
    \E c \in ColSet(d) :
        c[1] = "Location ID" /\ 100 * non_empty_count(d, c) > MostlyEmptyPct * NRows(d)

\* C11 as stated: a sheet in which only Location ID columns hold text is Case 1
\* whatever its number of rows
OnlyIdsIsCase1 ==
    (pc = "selected" /\ OnlyIdsFilled(df)) => strategy = 1

\* C11: a sheet in which only Location ID columns hold text, one of them in more
\* than 20% of the rows, is Case 1 and takes the direct mapping alone
MaterialIdsIsCase1 ==
    (pc = "selected" /\ OnlyIdsFilled(df) /\ IdsMaterial(df)) =>
        (strategy = 1 /\ ~ needs_fuzzy_matching /\ ~ only_state_mapped)

\* a sheet of two rows, the ids in one row and one column only
MaterialIdsIsCase1Witness ==
    /\ pc = "selected" /\ OnlyIdsFilled(df) /\ IdsMaterial(df) /\ strategy = 1
    /\ NRows(df) = 2
    /\ \E c \in ColSet(df) : c[1] = "Location ID" /\ ~ SomeRowFills(df, c)
    /\ \E r \in 1..NRows(df) : \A c \in ColSet(df) : c[1] = "Location ID" => ~ nonblank(at(df, r, c))

\* the pass has left row r as it was: its cells are those of the frame it
\* began with and its cells in the columns the pass has added are empty
RowUntouched(before, after, r) ==
    \A c \in ColSet(after) :
        IF c \in ColSet(before) THEN at(after, r, c) = at(before, r, c)
        ELSE at(after, r, c) = Emp

\* C12: the pass leaves every row untouched that is not classified 'Both' or
\* 'Virtual' or that names no state
BackfillOnlyVirtualRows ==
    pc = "backfilled" =>
        \A r \in 1..NRows(OnDisk) :
            ~ VirtualRow(OnDisk, r) => RowUntouched(OnDisk, df, r)

\* a row classified 'In Person' names the state of a virtual location and is
\* left untouched by a pass that has added columns for another row
BackfillOnlyVirtualRowsWitness ==
    /\ pc = "backfilled"
    /\ ColSet(df) # ColSet(OnDisk)
    /\ \E r \in 1..NRows(OnDisk) :
          /\ at(OnDisk, r, C_LOCATION_TYPE) = Text.InPerson
          /\ Sentinels(OnDisk, r) # <<>>
          /\ RowUntouched(OnDisk, df, r)
    /\ \E r \in 1..NRows(OnDisk) :
          /\ at(OnDisk, r, C_LOCATION_TYPE) = NaN
          /\ RowUntouched(OnDisk, df, r)

\* the titles of the columns of a slot
SlotTitles ==
    {"Location ID", "Location Monolith ID", "Location Cloud ID", "Practice Monolith ID",
     "Practice Cloud ID", "Location Type"}

\* the columns of slot n of a frame
SlotColumns(d, n) == {c \in ColSet(d) : c[1] \in SlotTitles /\ c[2] = n /\ c[3] = 0}

\* the slots in which row r holds data
UsedSlots(d, r) ==
    {n \in {c[2] : c \in ColSet(d)} :
        n > 0 /\ \E c \in SlotColumns(d, n) : nonblank(at(d, r, c))}

\* C13: a row the pass has written to has its new location id in the slot after
\* the last slot it used, that slot held nothing of the row, and the other
\* cells of the row are as they were
BackfillUsesFreshSlot ==
    pc = "backfilled" =>
        \A r \in 1..NRows(OnDisk) :
            ~ RowUntouched(OnDisk, df, r) =>
                LET n == SetMax({0} \cup UsedSlots(OnDisk, r)) + 1
                IN  /\ nonblank(at(df, r, ColN("Location Cloud ID", n)))
                    /\ \A c \in SlotColumns(OnDisk, n) : ~ nonblank(at(OnDisk, r, c))
                    /\ \A c \in ColSet(OnDisk) \ SlotColumns(OnDisk, n) :
                           at(df, r, c) = at(OnDisk, r, c)

\* the location id in slot n of row r
SlotId(d, r, n) == strip_dot_zero(strip(str(at(d, r, ColN("Location Cloud ID", n)))))

\* the slots of row r hold the catalog rows of found[r], in that order
SlotsFollowFound(d, r) ==
    \A k \in DOMAIN found[r] :
        SlotId(d, r, k) = strip_dot_zero(strip(str(api[found[r][k]].location_id)))

\* C14: the matches of a row hold no location id twice and stand in the order
\* of discovery: catalog order after the address matcher, the order of the
\* listed states after the State matcher, the order of the id columns after
\* the direct mapping
MatchListDistinctOrdered ==
    \A r \in 1..NRows(df) :
        /\ pc \in {"state_matched", "matched"} =>
               \A m, n \in Populated(df, r) : m # n => SlotId(df, r, m) # SlotId(df, r, n)
        /\ AddressMatched =>
               /\ \A k \in DOMAIN found[r] : k > 1 => found[r][k - 1] < found[r][k]
               /\ SlotsFollowFound(df, r)
        /\ pc = "state_matched" => SlotsFollowFound(df, r)
        /\ (pc = "matched" /\ executed = <<"direct">>) =>
               \A n \in Populated(df, r) :
                   LET rows == map_rows(api, clean_loc_id(at(df, r, ColN("Location Monolith ID", n))))
                   IN  rows # <<>> /\ SlotId(df, r, n) = strip_dot_zero(strip(str(api[rows[1]].location_id)))

\* C15: the sheet is saved after the matching of all rows, read again, passed
\* to the Backfiller as read, ordered and saved, in that order
PhaseOrder ==
    [][/\ pc' = "saved" => (pc = "matched" /\ executed # <<>> /\ file' = df')
       /\ pc' = "reloaded" => (pc = "saved" /\ file' = file /\ df' = read_excel(file))
       /\ pc' = "backfilled" =>
              /\ pc = "reloaded" /\ file' = file
              /\ df = read_excel(file)
              /\ df' = add_virtual_locations_after_matching(read_excel(file), api)
       /\ pc' = "done" => (pc = "backfilled" /\ df' = reorder(df) /\ file' = df')]_vars

\* the Backfiller has written a virtual location into the frame read from the
\* sheet the address matching saved
PhaseOrderWitness ==
    /\ pc = "backfilled" /\ executed = <<"fuzzy">>
    /\ \E r \in 1..NRows(OnDisk) : ~ RowUntouched(OnDisk, df, r)
    /\ \E r \in 1..NRows(file) : \E c \in ColSet(file) : file.rows[r][c] = Emp

\* the largest number of slots a row of the frame fills
MaxSlots(d) == SetMax({0} \cup {Cardinality(Populated(d, r)) : r \in 1..NRows(d)})

\* the base columns the frame has, in the order of base_columns
BaseOf(d) == SelectSeq(base_columns, LAMBDA c : HasCol(d, c))

\* the five columns of slot i stand together from position p + 1 on
GroupAt(d, p, i) ==
    /\ Len(d.cols) >= p + 5
    /\ d.cols[p + 1] \in {ColN("Location ID", i), ColN("Location Monolith ID", i)}
    /\ d.cols[p + 2] = ColN("Location Cloud ID", i)
    /\ d.cols[p + 3] = ColN("Practice Monolith ID", i)
    /\ d.cols[p + 4] = ColN("Practice Cloud ID", i)
    /\ d.cols[p + 5] = ColN("Location Type", i)

\* C16: the saved sheet begins with the base columns, and the five columns of
\* every slot up to the largest number of matches of a row follow as one
\* group for each slot, in ascending order of the slots
FinalSchema ==
    pc = "done" =>
        /\ SubSeq(file.cols, 1, Len(BaseOf(file))) = BaseOf(file)
        /\ \A i \in 1..MaxSlots(OnDisk) : GroupAt(file, Len(BaseOf(file)) + 5 * (i - 1), i)

\* the sheet as create_locations_input_excel wrote it, as a reader sees it
Supplied == read_excel(supplied)

\* the address and practice fields of a row
SuppliedFields == <<C_AL1, C_AL2, C_CITY, C_STATE, C_ZIP, C_PRACTICE_ID>>

\* the row holds the cells of the listed columns it held in the other frame
SameCells(before, after, r, columns) ==
    \A i \in DOMAIN columns :
        /\ HasCol(before, columns[i]) <=> HasCol(after, columns[i])
        /\ HasCol(before, columns[i]) => at(after, r, columns[i]) = at(before, r, columns[i])

\* no matcher of the run found a location for the row, and the finished sheet
\* records none for it
ZeroMatches(r) ==
    /\ r \in DOMAIN found => found[r] = <<>>
    /\ Populated(OnDisk, r) = {}

\* C17: a row the run ends with no match for holds its address line 1,
\* address line 2, city, state, zip and practice id as they were supplied
UnmatchedRowsAsSupplied ==
    pc = "done" =>
        /\ NRows(OnDisk) = NRows(Supplied)
        /\ \A r \in 1..NRows(OnDisk) :
               ZeroMatches(r) => SameCells(Supplied, OnDisk, r, SuppliedFields)

\* a request of the fetch failed
FetchFailed == fetched \in FetchOutcomes \ {"ok"}

\* C18: a run in which the location request or the conversion of the
\* practice ids failed does not complete normally
FetchFailureSurfaced == pc = "done" => ~ FetchFailed

\* C19: in a Case 1 dataset every row, matched or not, ends with the address
\* and practice fields it was supplied with
Case1FieldsVerbatim ==
    (pc = "done" /\ strategy = 1) =>
        \A r \in 1..NRows(OnDisk) : SameCells(Supplied, OnDisk, r, SuppliedFields)

\* the text an identifier is compared by
IdText(v) == strip_dot_zero(strip(str(v)))

\* the catalog row belongs to the practice named by the cells of row r
OfRowPractice(d, r, rec) ==
    \/ /\ nonblank(at(d, r, C_PRACTICE_ID))
       /\ notna(rec.practice_monolith_id)
       /\ IdText(rec.practice_monolith_id) = IdText(at(d, r, C_PRACTICE_ID))
    \/ /\ nonblank(at(d, r, C_PRACTICE_CLOUD_ID))
       /\ notna(rec.practice_cloud_id)
       /\ IdText(rec.practice_cloud_id) = IdText(at(d, r, C_PRACTICE_CLOUD_ID))

\* the row names a practice
CarriesPractice(d, r) ==
    nonblank(at(d, r, C_PRACTICE_ID)) \/ nonblank(at(d, r, C_PRACTICE_CLOUD_ID))

\* C20: in Cases 3 and 4 every match of a row that carries a practice
\* monolith id or a practice cloud id is a catalog row of that monolith id or
\* of that cloud id
PracticeScoping ==
    (AddressMatched /\ strategy \in {3, 4}) =>
        \A r \in DOMAIN found :
            CarriesPractice(OnDisk, r) =>
                \A k \in DOMAIN found[r] : OfRowPractice(OnDisk, r, api[found[r][k]])

\* a row with both identifiers is matched to a location of each practice, and
\* a row of one practice is matched, but not to the location of another
\* practice that has its address
PracticeScopingWitness ==
    /\ AddressMatched /\ strategy \in {3, 4}
    /\ \E r \in DOMAIN found :
           /\ nonblank(at(OnDisk, r, C_PRACTICE_ID))
           /\ nonblank(at(OnDisk, r, C_PRACTICE_CLOUD_ID))
           /\ \E j, k \in DOMAIN found[r] :
                  api[found[r][j]].practice_monolith_id # api[found[r][k]].practice_monolith_id
    /\ \E r \in DOMAIN found :
           /\ CarriesPractice(OnDisk, r)
           /\ found[r] # <<>>
           /\ \E i \in DOMAIN api :
                  /\ ~ OfRowPractice(OnDisk, r, api[i])
                  /\ multi_field_matches(normalized_row(OnDisk, r), api, <<i>>) # <<>>

\* the normalizers have been applied to str1
Normalized == norm # NoNorm

\* C21: each normalizer gives its own result back when applied to its
\* result, and gives the empty string for an empty or absent text
NormalizeIdempotent ==
    Normalized =>
        /\ normalize_string(norm.normalize_string) = norm.normalize_string
        /\ normalize_string_for_matching(norm.normalize_string_for_matching)
               = norm.normalize_string_for_matching
        /\ str1 \in {NaN, Emp} =>
               norm.normalize_string = Emp /\ norm.normalize_string_for_matching = Emp

\* a text in which a special character stands between two spaces inside the
\* text: its removal leaves a run of spaces for the later steps
NormalizeIdempotentWitness ==
    /\ Normalized
    /\ \E i \in 3..(Len(str1) - 2) :
           /\ str1[i] = ","
           /\ IsSpace(str1[i - 1]) /\ IsSpace(str1[i + 1])
           /\ IsLowerAlnum(lowerChar(str1[i - 2])) /\ IsLowerAlnum(lowerChar(str1[i + 2]))
    /\ norm.normalize_string # norm.normalize_string_for_matching
    /\ norm.normalize_string # str1

\* the text holds lower-case letters, digits and single spaces inside only
PlainText(s) ==
    /\ \A i \in DOMAIN s : IsLowerAlnum(s[i]) \/ IsSpace(s[i])
    /\ s = strip(s)
    /\ \A i \in DOMAIN s : i > 1 => ~ (IsSpace(s[i - 1]) /\ IsSpace(s[i]))

\* the two texts differ in special characters, case and runs of spaces at most
SameButPunctuation ==
    /\ normalize_string_for_matching(str1) = normalize_string_for_matching(str2)
    /\ normalize_string_for_matching(str1) # Emp

\* C22: what the scorer compares holds lower-case letters, digits and single
\* inner spaces only, and two texts that differ in special characters, case
\* or runs of spaces at most are similar at every threshold
PunctuationRemoved ==
    Scored =>
        /\ PlainText(normalize_string(str1)) /\ PlainText(normalize_string(str2))
        /\ SameButPunctuation => \A t \in Thresholds : score[t] = TRUE

\* the members of a list
Members(seq) == {seq[i] : i \in DOMAIN seq}

\* the candidates of row r after the line 1 and line 2 stages
AfterLine2(r) ==
    LET n == normalized_row(OnDisk, r)
    IN  line2_stage(n.addr2, api,
                    SelectSeq(Scoped(r),
                              LAMBDA i : fuzzy_match_score(n.addr1, normalize_string(api[i].address_1),
                                                           StreetThreshold)))

\* a stage on the set S of candidates: skipped when the row's field is
\* empty, and S replaced by its similar members when there are any
Stage(S, value, field) ==
    LET kept == {i \in S : fuzzy_match_score(value, normalize_string(api[i][field]), FieldThreshold)}
    IN  IF value = Emp \/ kept = {} THEN S ELSE kept

\* the candidates of row r after the city, state and zip stages
AfterZip(r) ==
    LET n == normalized_row(OnDisk, r)
    IN  Stage(Stage(Stage(Members(AfterLine2(r)), n.city, "city"), n.state, "state"), n.zip, "zip")

\* the row takes the multi-field branch
MultiField(r) ==
    LET n == normalized_row(OnDisk, r)
    IN  n.addr1 # Emp /\ ~ only_address_line1_mapped_row(n)

\* C23: in a Case 3 run the matches of a row come from the candidates the
\* city, state and zip stages leave, these stages keep a candidate set that
\* is not empty after the line 2 stage from becoming empty, and what they
\* leave is among the candidates of the line 2 stage
StagesNeverEmpty ==
    (AddressMatched /\ strategy = 3) =>
        \A r \in DOMAIN found :
            MultiField(r) =>
                /\ Members(found[r])
                       = {i \in AfterZip(r) : notna(api[i].monolith_location_id)
                                              /\ notna(api[i].location_id)}
                /\ AfterLine2(r) # <<>> => AfterZip(r) # {}
                /\ AfterZip(r) \subseteq Members(AfterLine2(r))

\* a row with a city is matched to a catalog row without one: the city stage
\* finds no similar candidate and leaves the candidates as they are
StagesNeverEmptyWitness ==
    /\ AddressMatched /\ strategy = 3
    /\ \E r \in DOMAIN found :
           LET n == normalized_row(OnDisk, r)
           IN  /\ MultiField(r)
               /\ n.city # Emp
               /\ found[r] # <<>>
               /\ \A k \in DOMAIN found[r] :
                      ~ fuzzy_match_score(n.city, normalize_string(api[found[r][k]].city),
                                          FieldThreshold)

\* the direct mapping has run on a Case 1 dataset
DirectMapped == pc = "matched" /\ executed = <<"direct">> /\ strategy = 1

\* the catalog rows whose monolith location id is the id, both cleaned
WithMonolithId(id) ==
    SelectSeq(Indices(api),
              LAMBDA i : /\ notna(api[i].monolith_location_id)
                         /\ IdText(api[i].monolith_location_id) = IdText(id))

\* the text of a catalog cell, empty for a missing one
CatalogText(v) == IF notna(v) THEN strip(str(v)) ELSE Emp

FoundIdColumns(r) ==
    SelectSeq(location_id_columns(OnDisk),
              LAMBDA c : nonblank(at(OnDisk, r, c)) /\ WithMonolithId(at(OnDisk, r, c)) # <<>>)

\* the first match of row r in the primary pass, as a list of at most one
\* catalog row
FirstMatch(r) ==
    IF executed[1] = "direct"
    THEN IF FoundIdColumns(r) = <<>> THEN <<>>
         ELSE <<WithMonolithId(at(OnDisk, r, FoundIdColumns(r)[1]))[1]>>
    ELSE IF found[r] = <<>> THEN <<>> ELSE <<found[r][1]>>

\* a ZIP of digits only is padded with zeros to five characters
PaddedZip(v) ==
    LET zip == CatalogText(v)
    IN  IF isdigit(zip) /\ Len(zip) < 5 THEN zfill(zip, 5) ELSE zip

\* C25: after the primary pass every row with a match holds, in each of its
\* five address cells, the field of the catalog row of its first match, the
\* ZIP padded
AddressFromFirstMatch ==
    pc = "matched" =>
        \A r \in 1..NRows(df) :
            FirstMatch(r) # <<>> =>
                LET rec == api[FirstMatch(r)[1]]
                IN  /\ at(df, r, C_AL1) = CatalogText(rec.address_1)
                    /\ at(df, r, C_AL2) = CatalogText(rec.address_2)
                    /\ at(df, r, C_CITY) = CatalogText(rec.city)
                    /\ at(df, r, C_STATE) = CatalogText(rec.state)
                    /\ at(df, r, C_ZIP) = PaddedZip(rec.zip)

\* the State matcher has just run
StateMatched == pc = "state_matched"

\* the states a cell lists between commas
ListedStates(v) ==
    IF ~ nonblank(v) THEN <<>>
    ELSE SelectSeq([i \in DOMAIN split_comma(strip(str(v))) |-> strip(split_comma(strip(str(v)))[i])],
                   LAMBDA x : x # Emp)

\* the catalog rows of a state, in catalog order
StateRecords(item) ==
    SelectSeq(Indices(api),
              LAMBDA i : notna(api[i].state)
                         /\ normalize_string(api[i].state) = normalize_string(item))

\* the first catalog row of every listed state that has one, in list order
StateMatches(v) ==
    LET hits == SelectSeq(ListedStates(v), LAMBDA x : StateRecords(x) # <<>>)
    IN  [k \in DOMAIN hits |-> StateRecords(hits[k])[1]]

\* straight after the State matcher: a row has the first catalog row of each
\* state its cell lists, in the order of the list and whatever the practice,
\* none for a state without a catalog row, written into the slots 1, 2, ...
StateMatcherStep ==
    StateMatched =>
        \A r \in 1..NRows(df) :
            /\ found[r] = StateMatches(at(Supplied, r, C_STATE))
            /\ Len(found[r]) <= Len(ListedStates(at(Supplied, r, C_STATE)))
            /\ Populated(df, r) = 1..Len(found[r])
            /\ \A k \in DOMAIN found[r] : SlotId(df, r, k) = IdText(api[found[r][k]].location_id)

\* straight after the State matcher a row lists two states, the second one
\* stands first in the catalog, and the row of the first one, of another
\* practice than the input row, fills slot 1
StateMatcherStepReached ==
    /\ StateMatched
    /\ \E r \in 1..NRows(df) :
           /\ Len(ListedStates(at(Supplied, r, C_STATE))) = 2
           /\ Len(found[r]) = 2
           /\ found[r][1] > found[r][2]
           /\ IdText(api[found[r][1]].practice_monolith_id) # IdText(at(Supplied, r, C_PRACTICE_ID))

\* C26: in the output of a Case 2 run a row has one match for each state its
\* cell lists that has a catalog row, the first catalog row of that state
\* whatever the practice, at most as many as the states listed, in the slots
\* 1, 2, ... in the order of the list
StatePerListedState ==
    (pc = "done" /\ strategy = 2) =>
        \A r \in 1..NRows(OnDisk) :
            LET matches == StateMatches(at(Supplied, r, C_STATE))
            IN  /\ Len(matches) <= Len(ListedStates(at(Supplied, r, C_STATE)))
                /\ Populated(OnDisk, r) = 1..Len(matches)
                /\ \A k \in DOMAIN matches :
                       SlotId(OnDisk, r, k) = IdText(api[matches[k]].location_id)

\* determine_location_type has returned
Classified == location_type # NoType

\* the normalized text of the raw value classified
NormalizedRaw == normalize_string_for_matching(strip(str(str1)))

\* a virtual pattern occurs in the text
has_virtual_pattern(normalized_input) ==
    \E k \in DOMAIN virtual_patterns :
        is_in(normalize_string_for_matching(virtual_patterns[k]), normalized_input)

\* C27: determine_location_type returns 'Both' for every raw value whose
\* normalized text contains an in-person phrase and a virtual keyword,
\* 'Virtual' only for values with a virtual pattern and no in-person phrase,
\* and 'In Person' for empty input
LocationTypeRules ==
    Classified =>
        /\ (has_in_person_phrase(NormalizedRaw) /\ has_virtual_keyword(NormalizedRaw)) =>
               location_type = Text.Both
        /\ location_type = Text.Virtual =>
               (has_virtual_pattern(NormalizedRaw) /\ ~ has_in_person_phrase(NormalizedRaw))
        /\ (isna(str1) \/ str1 = Emp) => location_type = Text.InPerson

\* the candidates of row r that survive all filters of the address matcher
Survivors(r) ==
    Members(surviving_candidates(OnDisk, r, api, valid_or_none(practice_id_of_row(OnDisk, r)),
                                 valid_or_none(practice_cloud_id_of_row(OnDisk, r))))

\* the catalog row has a monolith location id and an external location id
HasBothIds(i) == notna(api[i].monolith_location_id) /\ notna(api[i].location_id)

\* C28: in Cases 3 and 4 the matches of a row are its surviving candidates
\* that have both location ids; a survivor lacking one is in no slot of the
\* row, and a row all of whose survivors lack one has no match, no slot and
\* its address as before
EmittedWithBothIds ==
    (AddressMatched /\ strategy \in {3, 4}) =>
        \A r \in DOMAIN found :
            /\ Members(found[r]) = {i \in Survivors(r) : HasBothIds(i)}
            /\ Populated(df, r) = 1..Len(found[r])
            /\ \A i \in Survivors(r) :
                   ~ HasBothIds(i) =>
                       \A n \in Populated(df, r) : SlotId(df, r, n) # IdText(api[i].location_id)
            /\ found[r] = <<>> =>
                   /\ Populated(df, r) = {}
                   /\ SameCells(OnDisk, df, r, SuppliedFields)

\* a row with an address has surviving candidates, none of them with both
\* ids, and no match
EmittedWithBothIdsWitness ==
    /\ AddressMatched /\ strategy \in {3, 4}
    /\ \E r \in DOMAIN found :
           /\ Survivors(r) # {}
           /\ found[r] = <<>>
           /\ nonblank(at(df, r, C_AL1))

\* the primary pass of a Case 2 run is over and the final save is to come
Case2BeforeFinalSave ==
    strategy = 2 /\ pc \in {"state_matched", "matched", "saved", "reloaded", "backfilled"}

\* C29: in a Case 2 run a row with a state match has an empty 'Location
\* Type' from the State matching on, so also when the Backfiller runs, and
\* the Backfiller leaves the row with the slots of the sheet it read
StateMatchedTypeCleared ==
    Case2BeforeFinalSave =>
        \A r \in DOMAIN found :
            found[r] # <<>> =>
                /\ HasCol(df, C_LOCATION_TYPE)
                /\ ~ nonblank(at(df, r, C_LOCATION_TYPE))
                /\ pc = "backfilled" => Populated(df, r) = Populated(OnDisk, r)

\* the Backfiller has run over a row with a state match that was supplied as
\* 'Both' or 'Virtual' and whose state has a virtual catalog row that is in
\* none of its slots
StateMatchedTypeClearedWitness ==
    /\ strategy = 2 /\ pc = "backfilled"
    /\ \E r \in DOMAIN found :
           /\ found[r] # <<>>
           /\ strip(str(at(Supplied, r, C_LOCATION_TYPE))) \in {Text.Both, Text.Virtual}
           /\ virtual_row_guard_any_type(df, r)
           /\ LET virtual == virtual_locations(api, normalize_string(strip(str(at(df, r, C_STATE)))))
              IN  /\ virtual # <<>>
                  /\ notna(api[virtual[1]].location_id)
                  /\ IdText(api[virtual[1]].location_id) \notin SlotIds(df, r)

\* one of the two texts holds digit runs and the other none
OneHasNumbers == (extract_numbers(str1) = <<>>) # (extract_numbers(str2) = <<>>)

\* the normalized text without its digits, runs of whitespace collapsed
WithoutDigits(s) == join(<<" ">>, split(SelectSeq(normalize_string(s), LAMBDA c : ~ IsDigit(c))))

\* C30: when exactly one of the two texts holds digit runs and the two
\* normalized texts without their digits are equal and not empty, the score
\* is true for every threshold
NumberOnOneSide ==
    (/\ Scored
     /\ OneHasNumbers
     /\ WithoutDigits(str1) = WithoutDigits(str2)
     /\ WithoutDigits(str1) # Emp) =>
        \A t \in Thresholds : score[t] = TRUE

\* a scored pair: the first text has a number and letters and the second
\* is the same text without the number
NumberOnOneSideWitness ==
    /\ Scored
    /\ \E i \in DOMAIN str2 : str2[i] = "a"
    /\ extract_numbers(str1) # <<>>
    /\ extract_numbers(str2) = <<>>
    /\ WithoutDigits(str1) = WithoutDigits(str2)
    /\ WithoutDigits(str1) # Emp
    /\ score[100] = TRUE

====
